---- MODULE Spec2Model ----
(***************************************************************************)
(* ShlangeAI: the persona-scoped conversation store (storage.js), the      *)
(* completion gateway (js/api.js) and their callers, as a state machine.   *)
(*                                                                         *)
(* JavaScript values are tagged records [t |-> tag, v |-> payload]; a      *)
(* string that is the JSON serialisation of a value x is the string        *)
(* [t |-> "json", v |-> x], every other string is [t |-> "str", v |-> s].  *)
(* A call completes as [threw |-> FALSE, val |-> result] or as             *)
(* [threw |-> TRUE, val |-> error].                                        *)
(***************************************************************************)
EXTENDS Integers, Sequences, FiniteSets, TLC

(***************************************************************************)
(* Bounds of the model.                                                    *)
(***************************************************************************)
MaxLog == 2
MaxClock == 1

(***************************************************************************)
(* JavaScript values.                                                      *)
(***************************************************************************)
Undef == [t |-> "undef", v |-> 0]
Null == [t |-> "null", v |-> 0]
Bool(b) == [t |-> "bool", v |-> b]
Num(n) == [t |-> "num", v |-> n]
BigInt(n) == [t |-> "bigint", v |-> n]
Str(s) == [t |-> "str", v |-> s]
JsonText(x) == [t |-> "json", v |-> x]
Arr(s) == [t |-> "arr", v |-> s]
Obj(f) == [t |-> "obj", v |-> f]

Ok(x) == [threw |-> FALSE, val |-> x]
Err(name, message) == [threw |-> TRUE, val |-> [name |-> name, message |-> message]]

\* typeof x
TypeOf(x) ==
  CASE x.t = "undef" -> "undefined"
    [] x.t = "null" -> "object"
    [] x.t = "bool" -> "boolean"
    [] x.t = "num" -> "number"
    [] x.t = "bigint" -> "bigint"
    [] x.t \in {"str", "json"} -> "string"
    [] OTHER -> "object"

\* ToBoolean(x): what `if (x)`, `!x`, `x ? a : b`, `x || y` and `x && y` test
Truthy(x) ==
  CASE x.t \in {"undef", "null"} -> FALSE
    [] x.t = "bool" -> x.v
    [] x.t \in {"num", "bigint"} -> x.v # 0
    [] x.t = "str" -> x.v # ""
    [] OTHER -> TRUE

\* x || y
OrElse(x, y) == IF Truthy(x) THEN x ELSE y

\* x[k] for an x that is neither null nor undefined
Prop(x, k) ==
  CASE x.t = "obj" -> IF k \in DOMAIN x.v THEN x.v[k] ELSE Undef
    [] x.t = "arr" -> IF k = "length" THEN Num(Len(x.v)) ELSE Undef
    [] x.t = "str" -> IF k = "length" THEN Num(Len(x.v)) ELSE Undef
    [] OTHER -> Undef

\* x[0]
First(x) ==
  IF x.t = "arr" /\ Len(x.v) > 0 THEN x.v[1] ELSE Undef

\* x[k] as an expression: a TypeError on null and undefined
GetProp(x, k) ==
  IF x.t \in {"undef", "null"}
    THEN Err("TypeError", Str("Cannot read properties of null"))
    ELSE Ok(Prop(x, k))

\* x && x[k]
AndProp(x, k) == IF Truthy(x) THEN Prop(x, k) ELSE x

\* x[k] = y on an object x
SetProp(x, k, y) ==
  Obj([j \in DOMAIN x.v \cup {k} |-> IF j = k THEN y ELSE x.v[j]])

\* { ...x, k: y }
Spread(x, k, y) ==
  IF x.t = "obj" THEN SetProp(x, k, y) ELSE Obj([j \in {k} |-> y])

(***************************************************************************)
(* JSON.stringify and JSON.parse.                                          *)
(***************************************************************************)
RECURSIVE HasBigInt(_)
HasBigInt(x) ==
  CASE x.t = "bigint" -> TRUE
    [] x.t = "obj" -> \E k \in DOMAIN x.v : HasBigInt(x.v[k])
    [] x.t = "arr" -> \E i \in 1..Len(x.v) : HasBigInt(x.v[i])
    [] OTHER -> FALSE

\* the value a JSON text of x denotes: properties holding undefined are
\* dropped, undefined array elements become null
RECURSIVE JsonNorm(_)
JsonNorm(x) ==
  CASE x.t = "obj" ->
         Obj([k \in {j \in DOMAIN x.v : x.v[j].t # "undef"} |-> JsonNorm(x.v[k])])
    [] x.t = "arr" ->
         Arr([i \in 1..Len(x.v) |-> IF x.v[i].t = "undef" THEN Null ELSE JsonNorm(x.v[i])])
    [] OTHER -> x

JSONstringify(x) ==
  IF HasBigInt(x) THEN Err("TypeError", Str("Do not know how to serialize a BigInt"))
  ELSE IF x.t = "undef" THEN Ok(Undef)
  ELSE Ok(JsonText(JsonNorm(x)))

JSONparse(s) ==
  IF s.t = "json" THEN Ok(s.v) ELSE Err("SyntaxError", Str("Unexpected token"))

(***************************************************************************)
(* Dates: new Date().toISOString() and new Date(string).                   *)
(***************************************************************************)
IsoTable ==
  << "2026-01-01T00:00:00.000Z", "2026-01-01T01:00:00.000Z",
     "2026-01-01T02:00:00.000Z", "2026-01-01T03:00:00.000Z",
     "2026-01-01T04:00:00.000Z", "2026-01-01T05:00:00.000Z" >>

NaN == -1

toISOString(time) == Str(IsoTable[time + 1])

\* new Date(s).getTime(): NaN for a string that is not a date
DateParse(s) ==
  IF s.t = "str" /\ \E i \in 1..Len(IsoTable) : IsoTable[i] = s.v
    THEN (CHOOSE i \in 1..Len(IsoTable) : IsoTable[i] = s.v) - 1
    ELSE NaN

\* a <= b on the time values of two dates: false when either is NaN
DateLeq(a, b) == a # NaN /\ b # NaN /\ a <= b

(***************************************************************************)
(* The substrate: localStorage and sessionStorage.  A fault plan says      *)
(* which call of each substrate method raises during one operation         *)
(* (0: none).                                                              *)
(***************************************************************************)
LocalKeys ==
  {"conversations", "personas", "currentPersona", "adminToken",
   "adminTokenExpiry", "adminCode", "apiKey", "settings"}
SessionKeys == {"adminAuth"}

EmptyLocal == [k \in LocalKeys |-> Null]
EmptySession == [k \in SessionKeys |-> Null]

NoFault == [getItem |-> 0, setItem |-> 0, removeItem |-> 0, clear |-> 0]
\* no fault, one method failing at its first or second call, or the
\* whole substrate refusing access
FaultPlans ==
  {NoFault, [getItem |-> 1, setItem |-> 1, removeItem |-> 1, clear |-> 1]}
    \cup {[NoFault EXCEPT !.getItem = 1]}
    \cup {[NoFault EXCEPT !.setItem = i] : i \in 1..2}
    \cup {[NoFault EXCEPT !.removeItem = i] : i \in 1..2}
    \cup {[NoFault EXCEPT !.clear = i] : i \in 1..2}

\* String(x), the coercion setItem applies to its value
ToStr(x) ==
  CASE x.t \in {"str", "json"} -> x
    [] x.t = "undef" -> Str("undefined")
    [] x.t = "null" -> Str("null")
    [] OTHER -> JsonText(x)

getItem(store, key, f) ==
  IF f.getItem = 1 THEN Err("SecurityError", Str("The operation is insecure"))
  ELSE Ok(store[key])

\* the i-th setItem call of the operation
setItem(store, key, x, f, i) ==
  IF f.setItem = i
    THEN [threw |-> TRUE, store |-> store,
          val |-> [name |-> "QuotaExceededError", message |-> Str("quota exceeded")]]
    ELSE [threw |-> FALSE, store |-> [store EXCEPT ![key] = ToStr(x)], val |-> Undef]

\* the i-th removeItem call of the operation
removeItem(store, key, f, i) ==
  IF f.removeItem = i
    THEN [threw |-> TRUE, store |-> store,
          val |-> [name |-> "SecurityError", message |-> Str("The operation is insecure")]]
    ELSE [threw |-> FALSE, store |-> [store EXCEPT ![key] = Null], val |-> Undef]

\* the i-th clear call of the operation
clear(store, f, i) ==
  IF f.clear = i
    THEN [threw |-> TRUE, store |-> store,
          val |-> [name |-> "SecurityError", message |-> Str("The operation is insecure")]]
    ELSE [threw |-> FALSE, store |-> [k \in DOMAIN store |-> Null], val |-> Undef]

(***************************************************************************)
(* Storage (storage.js).  An operation that writes returns                 *)
(* [threw, val, ls, ss]; one that only reads returns [threw, val].         *)
(***************************************************************************)
KnownIds == {"companion", "code", "study"}

\* the ids callers pass: the known ones and one no table lists
PersonaInputs == KnownIds \cup {"pirate"}

DEFAULT_PROMPTS ==
  Obj([companion |-> Str("You are a friendly and empathetic AI companion. Your goal is to engage in warm, supportive conversations and help users feel heard and understood."),
       code |-> Str("You are an expert programming assistant. You provide clear, concise coding help, debugging assistance, and best practices guidance across multiple programming languages."),
       study |-> Str("You are a knowledgeable study helper and tutor. You break down complex concepts, provide clear explanations, and help students learn effectively using proven pedagogical techniques.")])

EmptyConversations == Obj([k \in KnownIds |-> Arr(<<>>)])

getConversationsTry(ls, f) ==
  LET g == getItem(ls, "conversations", f) IN
  IF g.threw THEN g ELSE
  LET p == IF Truthy(g.val) THEN JSONparse(g.val) ELSE Ok(Null) IN
  IF p.threw THEN p ELSE
  Ok(Obj([k \in KnownIds |-> OrElse(AndProp(p.val, k), Arr(<<>>))]))

\* a read without the catch
getConversations_NoCatch(ls, f) == getConversationsTry(ls, f)

getConversations(ls, f) ==
  LET r == getConversationsTry(ls, f) IN
  IF r.threw THEN Ok(EmptyConversations) ELSE r

Done(c, ls, ss) == [threw |-> c.threw, val |-> c.val, ls |-> ls, ss |-> ss]

\* a save that writes the given log alone instead of the whole blob
saveConversationTry_OnlyTarget(ls, ss, aiType, messages, f) ==
  LET j == JSONstringify(Obj([k \in {aiType} |-> messages])) IN
  IF j.threw THEN Done(j, ls, ss) ELSE
  LET w == setItem(ls, "conversations", j.val, f, 1) IN
  IF w.threw THEN Done(w, ls, ss) ELSE Done(Ok(Bool(TRUE)), w.store, ss)

saveConversationTry(ls, ss, aiType, messages, f) ==
  LET c == getConversations(ls, f) IN
  IF c.threw THEN Done(c, ls, ss) ELSE
  LET j == JSONstringify(SetProp(c.val, aiType, messages)) IN
  IF j.threw THEN Done(j, ls, ss) ELSE
  LET w == setItem(ls, "conversations", j.val, f, 1) IN
  IF w.threw THEN Done(w, ls, ss) ELSE Done(Ok(Bool(TRUE)), w.store, ss)

saveConversation(ls, ss, aiType, messages, f) ==
  LET r == saveConversationTry(ls, ss, aiType, messages, f) IN
  IF r.threw THEN Done(Ok(Bool(FALSE)), r.ls, r.ss) ELSE r

\* a push that starts the log over
Push_StartsOver(conversations, aiType, m) ==
  LET target == Prop(conversations, aiType) IN
  IF target.t = "arr"
    THEN Ok(SetProp(conversations, aiType, Arr(<<m>>)))
    ELSE Err("TypeError", Str("push is not a function"))

\* conversations[aiType].push(m)
Push(conversations, aiType, m) ==
  LET target == Prop(conversations, aiType) IN
  IF target.t = "arr"
    THEN Ok(SetProp(conversations, aiType, Arr(Append(target.v, m))))
    ELSE Err("TypeError", Str("push is not a function"))

addMessageTry(ls, ss, aiType, message, time, f) ==
  LET c == getConversations(ls, f) IN
  IF c.threw THEN Done(c, ls, ss) ELSE
  LET ts == GetProp(message, "timestamp") IN
  IF ts.threw THEN Done(ts, ls, ss) ELSE
  LET messageWithTimestamp ==
        Spread(message, "timestamp", OrElse(ts.val, toISOString(time)))
      p == Push(c.val, aiType, messageWithTimestamp) IN
  IF p.threw THEN Done(p, ls, ss) ELSE
  LET j == JSONstringify(p.val) IN
  IF j.threw THEN Done(j, ls, ss) ELSE
  LET w == setItem(ls, "conversations", j.val, f, 1) IN
  IF w.threw THEN Done(w, ls, ss) ELSE Done(Ok(Bool(TRUE)), w.store, ss)

addMessage(ls, ss, aiType, message, time, f) ==
  LET r == addMessageTry(ls, ss, aiType, message, time, f) IN
  IF r.threw THEN Done(Ok(Bool(FALSE)), r.ls, r.ss) ELSE r

\* an append that reads the blob again just before it writes
addMessageFrom_Rereads(ls, ss, conversations, aiType, message, time, f) ==
  addMessage(ls, ss, aiType, message, time, f)

\* lines 71-83: addMessage after line 69, conversations being what
\* getConversations returned there; ls is localStorage as it is now
addMessageFrom(ls, ss, conversations, aiType, message, time, f) ==
  LET ts == GetProp(message, "timestamp") IN
  IF ts.threw THEN Done(Ok(Bool(FALSE)), ls, ss) ELSE
  LET messageWithTimestamp ==
        Spread(message, "timestamp", OrElse(ts.val, toISOString(time)))
      p == Push(conversations, aiType, messageWithTimestamp) IN
  IF p.threw THEN Done(Ok(Bool(FALSE)), ls, ss) ELSE
  LET j == JSONstringify(p.val) IN
  IF j.threw THEN Done(Ok(Bool(FALSE)), ls, ss) ELSE
  LET w == setItem(ls, "conversations", j.val, f, 1) IN
  IF w.threw THEN Done(Ok(Bool(FALSE)), ls, ss) ELSE Done(Ok(Bool(TRUE)), w.store, ss)

getChatHistory(ls, persona, f) ==
  LET c == getConversations(ls, f) IN
  IF c.threw THEN c ELSE Ok(OrElse(Prop(c.val, persona), Arr(<<>>)))

saveMessage(ls, ss, persona, message, time, f) ==
  addMessage(ls, ss, persona, message, time, f)

clearChatHistory(ls, ss, persona, f) ==
  saveConversation(ls, ss, persona, Arr(<<>>), f)

clearAllChatHistoryTry(ls, ss, f) ==
  LET j == JSONstringify(EmptyConversations) IN
  IF j.threw THEN Done(j, ls, ss) ELSE
  LET w == setItem(ls, "conversations", j.val, f, 1) IN
  IF w.threw THEN Done(w, ls, ss) ELSE Done(Ok(Bool(TRUE)), w.store, ss)

clearAllChatHistory(ls, ss, f) ==
  LET r == clearAllChatHistoryTry(ls, ss, f) IN
  IF r.threw THEN Done(Ok(Bool(FALSE)), r.ls, r.ss) ELSE r

exportAllHistory(ls, f) == getConversations(ls, f)

\* aiType.charAt(0).toUpperCase() + aiType.slice(1), on the ids of the model
Capitalize(aiType) ==
  CASE aiType = "companion" -> Str("Companion")
    [] aiType = "code" -> Str("Code")
    [] aiType = "study" -> Str("Study")
    [] aiType = "pirate" -> Str("Pirate")
    [] OTHER -> Str(aiType)

Persona(name, personality, tone, systemPrompt) ==
  Obj([name |-> name, personality |-> personality, tone |-> tone,
       systemPrompt |-> systemPrompt])

defaultPersonas ==
  Obj([companion |-> Persona(Str("Companion"), Str("Friendly and empathetic"), Num(5),
                             Prop(DEFAULT_PROMPTS, "companion")),
       code |-> Persona(Str("Code Buddy"), Str("Technical and helpful"), Num(5),
                        Prop(DEFAULT_PROMPTS, "code")),
       study |-> Persona(Str("Study Helper"), Str("Patient and educational"), Num(5),
                         Prop(DEFAULT_PROMPTS, "study"))])

genericPersona(aiType) ==
  Persona(Capitalize(aiType), Str("Helpful"), Num(5),
          OrElse(Prop(DEFAULT_PROMPTS, aiType), Str("")))

\* a read that falls back to an empty config instead of the defaults
getPersonaTry_NoDefaults(ls, aiType, f) ==
  LET g == getItem(ls, "personas", f) IN
  IF g.threw THEN g ELSE
  LET p == IF Truthy(g.val) THEN JSONparse(g.val) ELSE Ok(Obj(<<>>)) IN
  IF p.threw THEN p ELSE
  LET stored == GetProp(p.val, aiType) IN
  IF stored.threw THEN stored ELSE Ok(OrElse(stored.val, Obj(<<>>)))

getPersonaTry(ls, aiType, f) ==
  LET g == getItem(ls, "personas", f) IN
  IF g.threw THEN g ELSE
  LET p == IF Truthy(g.val) THEN JSONparse(g.val) ELSE Ok(Obj(<<>>)) IN
  IF p.threw THEN p ELSE
  LET stored == GetProp(p.val, aiType) IN
  IF stored.threw THEN stored ELSE
  IF Truthy(stored.val) THEN stored
  ELSE Ok(OrElse(Prop(defaultPersonas, aiType), genericPersona(aiType)))

getPersona(ls, aiType, f) ==
  LET r == getPersonaTry(ls, aiType, f) IN
  IF r.threw THEN Ok(genericPersona(aiType)) ELSE r

\* parsed[aiType] = persona as JSON.stringify(parsed) then sees it: a
\* TypeError on null, a new property on an object, nothing on a primitive
\* or (a named property of an array is not serialised) on an array
Assign(parsed, aiType, persona) ==
  CASE parsed.t \in {"undef", "null"} -> Err("TypeError", Str("Cannot set properties of null"))
    [] parsed.t = "obj" -> Ok(SetProp(parsed, aiType, persona))
    [] OTHER -> Ok(parsed)

savePersonaTry(ls, ss, aiType, persona, f) ==
  LET g == getItem(ls, "personas", f) IN
  IF g.threw THEN Done(g, ls, ss) ELSE
  LET p == IF Truthy(g.val) THEN JSONparse(g.val) ELSE Ok(Obj(<<>>)) IN
  IF p.threw THEN Done(p, ls, ss) ELSE
  LET a == Assign(p.val, aiType, persona) IN
  IF a.threw THEN Done(a, ls, ss) ELSE
  LET j == JSONstringify(a.val) IN
  IF j.threw THEN Done(j, ls, ss) ELSE
  LET w == setItem(ls, "personas", j.val, f, 1) IN
  IF w.threw THEN Done(w, ls, ss) ELSE Done(Ok(Bool(TRUE)), w.store, ss)

savePersona(ls, ss, aiType, persona, f) ==
  LET r == savePersonaTry(ls, ss, aiType, persona, f) IN
  IF r.threw THEN Done(Ok(Bool(FALSE)), r.ls, r.ss) ELSE r

getApiKey(ls, f) ==
  LET g == getItem(ls, "apiKey", f) IN IF g.threw THEN Ok(Null) ELSE g

saveApiKey(ls, ss, key, f) ==
  LET w == setItem(ls, "apiKey", key, f, 1) IN
  IF w.threw THEN Done(Ok(Bool(FALSE)), ls, ss) ELSE Done(Ok(Bool(TRUE)), w.store, ss)

getAdminToken(ls, f) ==
  LET g == getItem(ls, "adminToken", f) IN IF g.threw THEN Ok(Null) ELSE g

setAdminTokenTry(ls, ss, token, expiresAt, f) ==
  LET w == setItem(ls, "adminToken", token, f, 1) IN
  IF w.threw THEN Done(w, ls, ss) ELSE
  IF ~Truthy(expiresAt) THEN Done(Ok(Bool(TRUE)), w.store, ss) ELSE
  LET e == setItem(w.store, "adminTokenExpiry", expiresAt, f, 2) IN
  IF e.threw THEN Done(e, w.store, ss) ELSE Done(Ok(Bool(TRUE)), e.store, ss)

setAdminToken(ls, ss, token, expiresAt, f) ==
  LET r == setAdminTokenTry(ls, ss, token, expiresAt, f) IN
  IF r.threw THEN Done(Ok(Bool(FALSE)), r.ls, r.ss) ELSE r

clearAdminTokenTry(ls, ss, f) ==
  LET a == removeItem(ls, "adminToken", f, 1) IN
  IF a.threw THEN Done(a, ls, ss) ELSE
  LET b == removeItem(a.store, "adminTokenExpiry", f, 2) IN
  IF b.threw THEN Done(b, a.store, ss) ELSE Done(Ok(Bool(TRUE)), b.store, ss)

clearAdminToken(ls, ss, f) ==
  LET r == clearAdminTokenTry(ls, ss, f) IN
  IF r.threw THEN Done(Ok(Bool(FALSE)), r.ls, r.ss) ELSE r

getAdminTokenExpiry(ls, f) ==
  LET g == getItem(ls, "adminTokenExpiry", f) IN IF g.threw THEN Ok(Null) ELSE g

isAdminTokenExpiredTry(ls, time, f) ==
  LET expiry == getAdminTokenExpiry(ls, f) IN
  IF expiry.threw THEN expiry ELSE
  IF ~Truthy(expiry.val) THEN Ok(Bool(TRUE))
  ELSE Ok(Bool(DateLeq(DateParse(expiry.val), time)))

isAdminTokenExpired(ls, time, f) ==
  LET r == isAdminTokenExpiredTry(ls, time, f) IN
  IF r.threw THEN Ok(Bool(TRUE)) ELSE r

\* Config.getAdminCode() of the configuration loaded with the page
ConfigCodes == {Null, Str("admin123")}

getAdminCodeTry(ls, configCode, f) ==
  LET g == getItem(ls, "adminCode", f) IN
  IF g.threw THEN g ELSE
  IF Truthy(g.val) THEN g
  ELSE IF Truthy(configCode) THEN Ok(configCode)
  ELSE Ok(Null)

getAdminCode(ls, configCode, f) ==
  LET r == getAdminCodeTry(ls, configCode, f) IN
  IF r.threw THEN Ok(Null) ELSE r

setAdminCode(ls, ss, code, f) ==
  LET w == setItem(ls, "adminCode", code, f, 1) IN
  IF w.threw THEN Done(Ok(Bool(FALSE)), ls, ss) ELSE Done(Ok(Bool(TRUE)), w.store, ss)

isAdminAuthenticated(ss, f) ==
  LET g == getItem(ss, "adminAuth", f) IN
  IF g.threw THEN Ok(Bool(FALSE)) ELSE Ok(Bool(g.val = Str("true")))

setAdminAuth(ls, ss, isAuthenticated, f) ==
  LET w == setItem(ss, "adminAuth",
                   IF Truthy(isAuthenticated) THEN Str("true") ELSE Str("false"), f, 1) IN
  IF w.threw THEN Done(Ok(Bool(FALSE)), ls, ss) ELSE Done(Ok(Bool(TRUE)), ls, w.store)

clearAllTry(ls, ss, f) ==
  LET a == clear(ls, f, 1) IN
  IF a.threw THEN Done(a, ls, ss) ELSE
  LET b == clear(ss, f, 2) IN
  IF b.threw THEN Done(b, a.store, ss) ELSE Done(Ok(Bool(TRUE)), a.store, b.store)

clearAll(ls, ss, f) ==
  LET r == clearAllTry(ls, ss, f) IN
  IF r.threw THEN Done(Ok(Bool(FALSE)), r.ls, r.ss) ELSE r

\* an export that leaves the persona configs out
exportDataTry_NoPersonas(ls, time, f) ==
  LET c == getConversations(ls, f) IN
  IF c.threw THEN c ELSE
  Ok(Obj([conversations |-> c.val, personas |-> Obj(<<>>),
          exportDate |-> toISOString(time)]))

exportDataTry(ls, time, f) ==
  LET c == getConversations(ls, f)
      pc == getPersona(ls, "companion", f)
      pk == getPersona(ls, "code", f)
      ps == getPersona(ls, "study", f) IN
  IF c.threw THEN c ELSE IF pc.threw THEN pc ELSE IF pk.threw THEN pk
  ELSE IF ps.threw THEN ps ELSE
  Ok(Obj([conversations |-> c.val,
          personas |-> Obj([companion |-> pc.val, code |-> pk.val, study |-> ps.val]),
          exportDate |-> toISOString(time)]))

exportData(ls, time, f) ==
  LET r == exportDataTry(ls, time, f) IN
  IF r.threw
    THEN Ok(Obj([conversations |-> EmptyConversations, personas |-> Obj(<<>>),
                 exportDate |-> toISOString(time)]))
    ELSE r

\* an import that validates with `!data` alone
importDataTry_NoTypeCheck(ls, ss, data, f) ==
  IF ~Truthy(data) THEN Done(Ok(Bool(FALSE)), ls, ss) ELSE
  LET conversations == Prop(data, "conversations")
      personas == Prop(data, "personas")
      jc == JSONstringify(conversations)
      jp == JSONstringify(personas)
      wc == IF Truthy(conversations) /\ ~jc.threw
              THEN setItem(ls, "conversations", jc.val, f, 1)
              ELSE [threw |-> FALSE, store |-> ls, val |-> Undef]
      wp == setItem(wc.store, "personas", jp.val, f,
                    IF Truthy(conversations) THEN 2 ELSE 1) IN
  IF Truthy(conversations) /\ jc.threw THEN Done(jc, ls, ss) ELSE
  IF wc.threw THEN Done(wc, ls, ss) ELSE
  IF ~Truthy(personas) THEN Done(Ok(Bool(TRUE)), wc.store, ss) ELSE
  IF jp.threw THEN Done(jp, wc.store, ss) ELSE
  IF wp.threw THEN Done(wp, wc.store, ss) ELSE Done(Ok(Bool(TRUE)), wp.store, ss)

\* an import that writes both blobs whatever the import holds, storing
\* "undefined" for a key it lacks
importDataTry_WritesAbsent(ls, ss, data, f) ==
  IF ~Truthy(data) \/ TypeOf(data) # "object" THEN Done(Ok(Bool(FALSE)), ls, ss) ELSE
  LET jc == JSONstringify(Prop(data, "conversations"))
      jp == JSONstringify(Prop(data, "personas")) IN
  IF jc.threw THEN Done(jc, ls, ss) ELSE
  LET wc == setItem(ls, "conversations", jc.val, f, 1) IN
  IF wc.threw THEN Done(wc, ls, ss) ELSE
  IF jp.threw THEN Done(jp, wc.store, ss) ELSE
  LET wp == setItem(wc.store, "personas", jp.val, f, 2) IN
  IF wp.threw THEN Done(wp, wc.store, ss) ELSE Done(Ok(Bool(TRUE)), wp.store, ss)

importDataTry(ls, ss, data, f) ==
  IF ~Truthy(data) \/ TypeOf(data) # "object" THEN Done(Ok(Bool(FALSE)), ls, ss) ELSE
  LET conversations == Prop(data, "conversations")
      personas == Prop(data, "personas")
      jc == JSONstringify(conversations)
      jp == JSONstringify(personas)
      wc == IF Truthy(conversations) /\ ~jc.threw
              THEN setItem(ls, "conversations", jc.val, f, 1)
              ELSE [threw |-> FALSE, store |-> ls, val |-> Undef]
      wp == setItem(wc.store, "personas", jp.val, f,
                    IF Truthy(conversations) THEN 2 ELSE 1) IN
  IF Truthy(conversations) /\ jc.threw THEN Done(jc, ls, ss) ELSE
  IF wc.threw THEN Done(wc, ls, ss) ELSE
  IF ~Truthy(personas) THEN Done(Ok(Bool(TRUE)), wc.store, ss) ELSE
  IF jp.threw THEN Done(jp, wc.store, ss) ELSE
  IF wp.threw THEN Done(wp, wc.store, ss) ELSE Done(Ok(Bool(TRUE)), wp.store, ss)

importData(ls, ss, data, f) ==
  LET r == importDataTry(ls, ss, data, f) IN
  IF r.threw THEN Done(Ok(Bool(FALSE)), r.ls, r.ss) ELSE r

getCurrentPersona(ls, f) ==
  LET g == getItem(ls, "currentPersona", f) IN
  IF g.threw THEN Ok(Str("companion")) ELSE Ok(OrElse(g.val, Str("companion")))

setCurrentPersona(ls, ss, persona, f) ==
  LET w == setItem(ls, "currentPersona", persona, f, 1) IN
  IF w.threw THEN Done(Ok(Bool(FALSE)), ls, ss) ELSE Done(Ok(Bool(TRUE)), w.store, ss)

defaultSettings == Obj([companionName |-> Str("Companion"), theme |-> Str("blue")])

getSettingsTry(ls, f) ==
  LET g == getItem(ls, "settings", f) IN
  IF g.threw THEN g ELSE
  IF Truthy(g.val) THEN JSONparse(g.val) ELSE Ok(defaultSettings)

getSettings(ls, f) ==
  LET r == getSettingsTry(ls, f) IN IF r.threw THEN Ok(defaultSettings) ELSE r

\* { ...a, ...b } for values without indexed properties
Merge(a, b) ==
  LET da == IF a.t = "obj" THEN DOMAIN a.v ELSE {}
      db == IF b.t = "obj" THEN DOMAIN b.v ELSE {} IN
  Obj([k \in da \cup db |-> IF k \in db THEN b.v[k] ELSE a.v[k]])

updateSettingsTry(ls, ss, settings, f) ==
  LET c == getSettings(ls, f) IN
  IF c.threw THEN Done(c, ls, ss) ELSE
  LET j == JSONstringify(Merge(c.val, settings)) IN
  IF j.threw THEN Done(j, ls, ss) ELSE
  LET w == setItem(ls, "settings", j.val, f, 1) IN
  IF w.threw THEN Done(w, ls, ss) ELSE Done(Ok(Bool(TRUE)), w.store, ss)

updateSettings(ls, ss, settings, f) ==
  LET r == updateSettingsTry(ls, ss, settings, f) IN
  IF r.threw THEN Done(Ok(Bool(FALSE)), r.ls, r.ss) ELSE r

(***************************************************************************)
(* API (js/api.js).                                                        *)
(***************************************************************************)
DEFAULT_MODEL == Str("sonar")

API_personas ==
  Obj([companion |-> Obj([name |-> Str("Companion"), model |-> DEFAULT_MODEL]),
       code |-> Obj([name |-> Str("Code Buddy"), model |-> DEFAULT_MODEL]),
       study |-> Obj([name |-> Str("Study Helper"), model |-> DEFAULT_MODEL])])

getPersonaConfig(persona) ==
  LET config == Prop(API_personas, persona) IN
  IF ~Truthy(config) THEN Prop(API_personas, "companion") ELSE config

RequestFailedPrefix == "Perplexity AI API request failed"
UnexpectedFormatMessage == Str("Unexpected response format from Perplexity AI")
UnableToConnectMessage ==
  Str("Unable to connect to Perplexity AI. Please check your internet connection.")
FailedToGetMessage == Str("Failed to get AI response from Perplexity AI")

\* `Perplexity AI API request failed with status ${status}`
RequestFailedMessage(status) ==
  Str(RequestFailedPrefix \o " with status " \o ToString(status))

\* the HTTP statuses and the transport failures of the model
Statuses == {200, 401, 500}
TransportErrors ==
  {[name |-> "TypeError", message |-> Str("Failed to fetch")],
   [name |-> "TypeError", message |-> Str("NetworkError when attempting to fetch resource.")]}

\* m.startsWith(RequestFailedPrefix), on the messages of the model
StartsWithRequestFailed(m) ==
  m.t = "str" /\ \E n \in Statuses : m = RequestFailedMessage(n)

\* new Error(x).message
ErrorMessage(x) ==
  CASE x.t = "str" -> x
    [] x.t = "undef" -> Str("")
    [] x.t = "null" -> Str("null")
    [] OTHER -> Str("[object Object]")

\* a request whose system prompt stops at the default of the persona id
getResponseRequest_NoFallback(ls, persona, userMessage) ==
  LET personaConfig == getPersonaConfig(persona)
      personaData == getPersona(ls, persona, NoFault).val
      system == OrElse(Prop(personaData, "systemPrompt"),
                       Prop(DEFAULT_PROMPTS, persona)) IN
  Obj([model |-> Prop(personaConfig, "model"),
       messages |-> Arr(<< Obj([role |-> Str("system"), content |-> system]),
                           Obj([role |-> Str("user"), content |-> userMessage]) >>)])

\* the body of the request: the model and the two messages
getResponseRequest(ls, persona, userMessage) ==
  LET personaConfig == getPersonaConfig(persona)
      personaData == getPersona(ls, persona, NoFault).val
      system == OrElse(Prop(personaData, "systemPrompt"),
                       OrElse(Prop(DEFAULT_PROMPTS, persona),
                              Prop(DEFAULT_PROMPTS, "companion"))) IN
  Obj([model |-> Prop(personaConfig, "model"),
       messages |-> Arr(<< Obj([role |-> Str("system"), content |-> system]),
                           Obj([role |-> Str("user"), content |-> userMessage]) >>)])

\* errorData.error?.message || errorData.message || errorMessage
errorDataMessage(errorData, errorMessage) ==
  LET error == GetProp(errorData, "error") IN
  IF error.threw THEN error ELSE
  LET inner == IF error.val.t \in {"undef", "null"} THEN Undef
               ELSE Prop(error.val, "message") IN
  Ok(OrElse(inner, OrElse(Prop(errorData, "message"), errorMessage)))

\* a response is [status, json]: json is the completion of response.json()
ResponseOk(response) == response.status \in 200..299

\* lines 116-127: the error thrown on a non-OK response
getResponseNotOk(response) ==
  LET errorMessage == RequestFailedMessage(response.status)
      resolved == IF response.json.threw THEN Ok(errorMessage)
                  ELSE errorDataMessage(response.json.val, errorMessage) IN
  [name |-> "Error",
   message |-> ErrorMessage(IF resolved.threw THEN errorMessage ELSE resolved.val)]

\* lines 129-140: the result of an OK response, inside the try block
getResponseOk(response) ==
  LET data == response.json IN
  IF data.threw THEN data ELSE
  LET choices == GetProp(data.val, "choices") IN
  IF choices.threw THEN choices ELSE
  IF ~Truthy(choices.val) THEN Err("Error", UnexpectedFormatMessage) ELSE
  LET length == Prop(choices.val, "length") IN
  IF ~(length.t = "num" /\ length.v > 0) THEN Err("Error", UnexpectedFormatMessage) ELSE
  LET message == GetProp(First(choices.val), "message") IN
  IF message.threw THEN message ELSE
  IF ~Truthy(message.val) THEN Err("Error", UnexpectedFormatMessage) ELSE
  Ok(Obj([response |-> Prop(message.val, "content")]))

\* the catch block without its network-error branch
getResponseCatch_NoNetworkBranch(error) ==
  Err("Error", OrElse(error.message, FailedToGetMessage))

\* lines 142-152: the catch block
getResponseCatch(error) ==
  IF error.name = "TypeError" /\ ~StartsWithRequestFailed(error.message)
    THEN Err("Error", UnableToConnectMessage)
    ELSE Err("Error", OrElse(error.message, FailedToGetMessage))

\* what getResponse settles with once fetch has settled; transport is
\* the completion of fetch
getResponseSettle(transport) ==
  LET r == IF transport.threw THEN transport
           ELSE IF ~ResponseOk(transport.val)
             THEN [threw |-> TRUE, val |-> getResponseNotOk(transport.val)]
           ELSE getResponseOk(transport.val) IN
  IF r.threw THEN getResponseCatch(r.val) ELSE r

(***************************************************************************)
(* State.                                                                  *)
(***************************************************************************)
VARIABLES
  localStorage,    \* key -> stored string, or null when absent
  sessionStorage,  \* key -> stored string, or null when absent
  clock,           \* the current time, in hours after the first IsoTable entry
  last,            \* the Storage call this step made (or none): name, arguments,
                   \* the fault plan in force and the completion
  freshStorage,    \* the localStorage of the fresh store a round trip imports into;
                   \* empty again at the next step
  apiPc,           \* API.getResponse: "idle", "awaiting" (fetch pending) or "settled"
  apiCall,         \* its arguments and the request it sent
  apiTransport,    \* the completion of its fetch
  apiOutcome,      \* the completion of the call
  currentPersona,  \* UI.currentPersona
  isWaitingForResponse,  \* UI.isWaitingForResponse
  companionName,   \* API.personas.companion.name
  turns,           \* the UI.sendMessage calls suspended at their await, oldest first:
                   \* persona and text passed to API.getResponse, the request sent,
                   \* "awaiting" or "settled", and the completion of getResponse
  isAuthenticated, \* Auth.isAuthenticated
  logins,          \* the Auth.unlockAdmin calls suspended at AuthAPI.login
  authPc,          \* Auth.makeAuthenticatedRequest: "idle" or "awaiting" (fetch
                   \* pending)
  authCall,        \* the headers of the request it sent
  authOutcome,     \* the completion of the call
  writers          \* the Storage.addMessage calls of other tabs on the same
                   \* localStorage that have read the blob and not yet written it

storeVars == <<localStorage, sessionStorage, clock, last, freshStorage>>
apiVars == <<apiPc, apiCall, apiTransport, apiOutcome>>
uiVars == <<currentPersona, isWaitingForResponse, turns, companionName>>
authVars == <<isAuthenticated, logins, authPc, authCall, authOutcome>>
tabVars == <<writers>>
vars == <<localStorage, sessionStorage, clock, last, freshStorage,
          apiPc, apiCall, apiTransport, apiOutcome,
          currentPersona, isWaitingForResponse, turns,
          companionName,
          isAuthenticated, logins, authPc, authCall, authOutcome, writers>>

\* the modules as the page loads them, before any call
ApiIdle ==
  /\ apiPc = "idle"
  /\ apiCall = [persona |-> "", userMessage |-> Undef, request |-> Undef]
  /\ apiTransport = Ok(Undef)
  /\ apiOutcome = Ok(Undef)

UiLoaded ==
  /\ currentPersona = "companion"
  /\ isWaitingForResponse = FALSE
  /\ turns = <<>>
  /\ companionName = Prop(Prop(API_personas, "companion"), "name")

AuthLoaded ==
  /\ isAuthenticated = FALSE
  /\ logins = 0
  /\ authPc = "idle"
  /\ authCall = Undef
  /\ authOutcome = Ok(Undef)

\* no other tab is inside a Storage call
TabsIdle == writers = <<>>

Call(op, args, f, r) ==
  [op |-> op, args |-> args, fault |-> f, threw |-> r.threw, val |-> r.val]

NoCall == [op |-> "none", args |-> <<>>, fault |-> NoFault, threw |-> FALSE, val |-> Undef]

Init ==
  /\ localStorage = EmptyLocal
  /\ sessionStorage = EmptySession
  /\ clock = 0
  /\ last = NoCall
  /\ freshStorage = EmptyLocal
  /\ ApiIdle
  /\ UiLoaded
  /\ AuthLoaded
  /\ TabsIdle

Tick ==
  /\ clock < MaxClock
  /\ clock' = clock + 1
  /\ last' = NoCall
  /\ freshStorage' = EmptyLocal
  /\ UNCHANGED <<localStorage, sessionStorage>>
  /\ UNCHANGED <<apiVars, uiVars, authVars, tabVars>>

(***************************************************************************)
(* Storage calls as steps.  A call that writes replaces both stores by    *)
(* the ones it leaves; a call that reads leaves them alone.                *)
(***************************************************************************)
Write(op, args, f, r) ==
  /\ localStorage' = r.ls
  /\ sessionStorage' = r.ss
  /\ last' = Call(op, args, f, r)
  /\ freshStorage' = EmptyLocal
  /\ UNCHANGED clock
  /\ UNCHANGED <<apiVars, uiVars, authVars, tabVars>>

Read(op, args, f, r) ==
  /\ last' = Call(op, args, f, r)
  /\ freshStorage' = EmptyLocal
  /\ UNCHANGED <<localStorage, sessionStorage, clock>>
  /\ UNCHANGED <<apiVars, uiVars, authVars, tabVars>>

\* the log of a persona as getChatHistory returns it from a working store
Log(ls, persona) == getChatHistory(ls, persona, NoFault).val

LogLen(ls, persona) ==
  IF Log(ls, persona).t = "arr" THEN Len(Log(ls, persona).v) ELSE 0

AddMessage(aiType, message, f) ==
  /\ LogLen(localStorage, aiType) < MaxLog
  /\ Write("addMessage", <<Str(aiType), message>>, f,
           addMessage(localStorage, sessionStorage, aiType, message, clock, f))

SaveMessage(persona, message, f) ==
  /\ LogLen(localStorage, persona) < MaxLog
  /\ Write("saveMessage", <<Str(persona), message>>, f,
           saveMessage(localStorage, sessionStorage, persona, message, clock, f))

SaveConversation(aiType, messages, f) ==
  Write("saveConversation", <<Str(aiType), messages>>, f,
        saveConversation(localStorage, sessionStorage, aiType, messages, f))

ClearChatHistory(persona, f) ==
  Write("clearChatHistory", <<Str(persona)>>, f,
        clearChatHistory(localStorage, sessionStorage, persona, f))

ClearAllChatHistory(f) ==
  Write("clearAllChatHistory", <<>>, f,
        clearAllChatHistory(localStorage, sessionStorage, f))

ClearAll(f) ==
  Write("clearAll", <<>>, f, clearAll(localStorage, sessionStorage, f))

SavePersona(aiType, persona, f) ==
  Write("savePersona", <<Str(aiType), persona>>, f,
        savePersona(localStorage, sessionStorage, aiType, persona, f))

ImportData(data, f) ==
  Write("importData", <<data>>, f, importData(localStorage, sessionStorage, data, f))

SaveApiKey(key, f) ==
  Write("saveApiKey", <<key>>, f, saveApiKey(localStorage, sessionStorage, key, f))

SetAdminToken(token, expiresAt, f) ==
  Write("setAdminToken", <<token, expiresAt>>, f,
        setAdminToken(localStorage, sessionStorage, token, expiresAt, f))

ClearAdminToken(f) ==
  Write("clearAdminToken", <<>>, f, clearAdminToken(localStorage, sessionStorage, f))

SetAdminCode(code, f) ==
  Write("setAdminCode", <<code>>, f, setAdminCode(localStorage, sessionStorage, code, f))

SetAdminAuth(authenticated, f) ==
  Write("setAdminAuth", <<authenticated>>, f,
        setAdminAuth(localStorage, sessionStorage, authenticated, f))

SetCurrentPersona(persona, f) ==
  Write("setCurrentPersona", <<Str(persona)>>, f,
        setCurrentPersona(localStorage, sessionStorage, Str(persona), f))

UpdateSettings(settings, f) ==
  Write("updateSettings", <<settings>>, f,
        updateSettings(localStorage, sessionStorage, settings, f))

GetConversations(f) ==
  Read("getConversations", <<>>, f, getConversations(localStorage, f))

GetChatHistory(persona, f) ==
  Read("getChatHistory", <<Str(persona)>>, f, getChatHistory(localStorage, persona, f))

ExportAllHistory(f) ==
  Read("exportAllHistory", <<>>, f, exportAllHistory(localStorage, f))

GetPersona(aiType, f) ==
  Read("getPersona", <<Str(aiType)>>, f, getPersona(localStorage, aiType, f))

GetApiKey(f) == Read("getApiKey", <<>>, f, getApiKey(localStorage, f))

GetAdminToken(f) == Read("getAdminToken", <<>>, f, getAdminToken(localStorage, f))

GetAdminTokenExpiry(f) ==
  Read("getAdminTokenExpiry", <<>>, f, getAdminTokenExpiry(localStorage, f))

IsAdminTokenExpired(f) ==
  Read("isAdminTokenExpired", <<>>, f, isAdminTokenExpired(localStorage, clock, f))

GetAdminCode(configCode, f) ==
  Read("getAdminCode", <<configCode>>, f, getAdminCode(localStorage, configCode, f))

IsAdminAuthenticated(f) ==
  Read("isAdminAuthenticated", <<>>, f, isAdminAuthenticated(sessionStorage, f))

ExportData(f) == Read("exportData", <<>>, f, exportData(localStorage, clock, f))

GetCurrentPersona(f) ==
  Read("getCurrentPersona", <<>>, f, getCurrentPersona(localStorage, f))

GetSettings(f) == Read("getSettings", <<>>, f, getSettings(localStorage, f))

\* importData(exportData()) into a fresh, empty store
RoundTrip ==
  LET data == exportData(localStorage, clock, NoFault).val
      r == importData(EmptyLocal, EmptySession, data, NoFault) IN
  /\ freshStorage' = r.ls
  /\ last' = Call("roundTrip", <<data>>, NoFault, r)
  /\ UNCHANGED <<localStorage, sessionStorage, clock>>
  /\ UNCHANGED <<apiVars, uiVars, authVars, tabVars>>

(***************************************************************************)
(* UI (js/ui.js).  A sendMessage call runs to its await in one step, the   *)
(* fetch of its getResponse call settles in another, and the call resumes  *)
(* in a third; other events may come between them.                         *)
(***************************************************************************)
MaxTurns == 2

UiPersonas == {"companion", "code"}

\* a sendMessage that does not look at isWaitingForResponse
sendMessageStart_NoWaitingGuard(ls, ss, persona, waiting, text, time) ==
  IF ~Truthy(text) THEN [sent |-> FALSE, ls |-> ls, ss |-> ss] ELSE
  LET userMessage == Obj([type |-> Str("user"), text |-> text,
                          timestamp |-> toISOString(time)])
      r == saveMessage(ls, ss, persona, userMessage, time, NoFault) IN
  [sent |-> TRUE, ls |-> r.ls, ss |-> r.ss]

\* lines 201-226: sendMessage up to its await, on the trimmed input text;
\* sent says whether the call went past its guard
sendMessageStart(ls, ss, persona, waiting, text, time) ==
  IF ~Truthy(text) \/ waiting THEN [sent |-> FALSE, ls |-> ls, ss |-> ss] ELSE
  LET userMessage == Obj([type |-> Str("user"), text |-> text,
                          timestamp |-> toISOString(time)])
      r == saveMessage(ls, ss, persona, userMessage, time, NoFault) IN
  [sent |-> TRUE, ls |-> r.ls, ss |-> r.ss]

\* a catch block that also saves what it displays
sendMessageSettled_SavesError(ls, ss, persona, outcome, time) ==
  LET text == IF outcome.threw THEN outcome.val.message
              ELSE Prop(outcome.val, "response")
      aiMessage == Obj([type |-> Str("ai"), text |-> text,
                        timestamp |-> toISOString(time)])
      r == saveMessage(ls, ss, persona, aiMessage, time, NoFault) IN
  Done(Ok(Undef), r.ls, r.ss)

\* lines 231-260: sendMessage after its await; outcome is the completion of
\* getResponse, persona the value of this.currentPersona now
sendMessageSettled(ls, ss, persona, outcome, time) ==
  IF outcome.threw THEN Done(Ok(Undef), ls, ss) ELSE
  LET result == outcome.val
      aiResponse == IF TypeOf(result) = "string" THEN Ok(result)
                    ELSE GetProp(result, "response") IN
  IF aiResponse.threw THEN Done(Ok(Undef), ls, ss) ELSE
  LET aiMessage == Obj([type |-> Str("ai"), text |-> aiResponse.val,
                        timestamp |-> toISOString(time)])
      r == saveMessage(ls, ss, persona, aiMessage, time, NoFault) IN
  Done(Ok(Undef), r.ls, r.ss)

\* a finally block that leaves the flag as it finds it
sendMessageFinally_KeepsWaiting(waiting) == waiting

\* lines 257-261: the value the finally block leaves in isWaitingForResponse
sendMessageFinally(waiting) == FALSE

\* a step of the UI: the stores it leaves and the call it made
UiStep(op, args, r) ==
  /\ localStorage' = r.ls
  /\ sessionStorage' = r.ss
  /\ last' = Call(op, args, NoFault, r)
  /\ freshStorage' = EmptyLocal
  /\ UNCHANGED clock
  /\ UNCHANGED <<apiVars, authVars, tabVars>>

Turn(persona, text, request) ==
  [persona |-> persona, userMessage |-> text, request |-> request,
   pc |-> "awaiting", outcome |-> Ok(Undef)]

SendMessage(text) ==
  /\ \/ \A p \in UiPersonas : LogLen(localStorage, p) < MaxLog
     \/ isWaitingForResponse
  /\ Len(turns) < MaxTurns
  /\ \E r \in {sendMessageStart(localStorage, sessionStorage, currentPersona,
                                 isWaitingForResponse, text, clock)} :
     /\ UiStep("sendMessage", <<text>>, Done(Ok(Bool(r.sent)), r.ls, r.ss))
     /\ isWaitingForResponse' = (isWaitingForResponse \/ r.sent)
     /\ turns' = IF r.sent
                   THEN Append(turns, Turn(currentPersona, text,
                                 getResponseRequest(r.ls, currentPersona, text)))
                   ELSE turns
     /\ UNCHANGED <<currentPersona, companionName>>

\* the fetch of the i-th suspended call settles and getResponse completes
FetchSettles(i, transport) ==
  /\ i \in 1..Len(turns)
  /\ turns[i].pc = "awaiting"
  /\ turns' = [turns EXCEPT ![i].pc = "settled",
                            ![i].outcome = getResponseSettle(transport)]
  /\ last' = NoCall
  /\ freshStorage' = EmptyLocal
  /\ UNCHANGED <<localStorage, sessionStorage, clock, currentPersona, companionName,
                 isWaitingForResponse>>
  /\ UNCHANGED <<apiVars, authVars, tabVars>>

Remove(seq, i) == [j \in 1..(Len(seq) - 1) |-> IF j < i THEN seq[j] ELSE seq[j + 1]]

\* the i-th suspended call resumes after its await and runs to its end
SendMessageResume(i) ==
  /\ i \in 1..Len(turns)
  /\ turns[i].pc = "settled"
  /\ \E r \in {sendMessageSettled(localStorage, sessionStorage, currentPersona,
                                   turns[i].outcome, clock)} :
     /\ localStorage' = r.ls
     /\ sessionStorage' = r.ss
     /\ last' = Call("sendMessageResume",
                     <<Str(turns[i].persona), turns[i].userMessage>>, NoFault,
                     turns[i].outcome)
  /\ isWaitingForResponse' = sendMessageFinally(isWaitingForResponse)
  /\ turns' = Remove(turns, i)
  /\ freshStorage' = EmptyLocal
  /\ UNCHANGED <<clock, currentPersona, companionName>>
  /\ UNCHANGED <<apiVars, authVars, tabVars>>

SwitchPersona(persona) ==
  /\ UiStep("switchPersona", <<Str(persona)>>,
            setCurrentPersona(localStorage, sessionStorage, Str(persona), NoFault))
  /\ currentPersona' = persona
  /\ UNCHANGED <<isWaitingForResponse, turns, companionName>>

\* the user confirms the dialog
ClearCurrentChat ==
  /\ UiStep("clearCurrentChat", <<Str(currentPersona)>>,
            clearChatHistory(localStorage, sessionStorage, currentPersona, NoFault))
  /\ UNCHANGED uiVars

\* the user confirms the dialog
ClearAllHistory ==
  /\ UiStep("clearAllHistory", <<>>,
            clearAllChatHistory(localStorage, sessionStorage, NoFault))
  /\ UNCHANGED uiVars

\* the trimmed input of the message box, and what the endpoint answers
UiTexts == {Str(""), Str("hi")}

UiTransports ==
  { [threw |-> TRUE, val |-> [name |-> "TypeError", message |-> Str("Failed to fetch")]],
    Ok([status |-> 500, json |-> Ok(Obj([message |-> Str("bad request")]))]),
    Ok([status |-> 200, json |-> Ok(Obj([choices |-> Arr(<<>>)]))]),
    Ok([status |-> 200,
        json |-> Ok(Obj([choices |->
                   Arr(<< Obj([message |-> Obj([content |-> Str("Hi there")])]) >>)]))]) }

NextUi ==
  \/ \E text \in UiTexts : SendMessage(text)
  \/ \E i \in 1..MaxTurns, transport \in UiTransports : FetchSettles(i, transport)
  \/ \E i \in 1..MaxTurns : SendMessageResume(i)
  \/ \E persona \in UiPersonas : SwitchPersona(persona)
  \/ ClearCurrentChat
  \/ ClearAllHistory

SpecUi == Init /\ [][NextUi]_vars

(***************************************************************************)
(* Claims about UI.sendMessage.                                            *)
(***************************************************************************)
\* the message sendMessage saves for the user's text
UserMessage(text, time) ==
  Obj([type |-> Str("user"), text |-> text, timestamp |-> toISOString(time)])

\* C18: a sendMessage call whose getResponse fails changes the durable logs
\* by the user's message alone: the step up to the await appends that
\* message to the current persona's log and touches no other log, and the
\* step after the failed await leaves both stores as they were
C18_FailedTurnNotPersisted ==
  [][/\ last'.op = "sendMessage" /\ last'.val = Bool(TRUE) =>
          \A p \in PersonaInputs :
            Log(localStorage', p) =
              IF p = currentPersona
                THEN Arr(Append(Log(localStorage, p).v, UserMessage(last'.args[1], clock)))
                ELSE Log(localStorage, p)
     /\ last'.op = "sendMessageResume" /\ last'.threw =>
          /\ localStorage' = localStorage
          /\ sessionStorage' = sessionStorage]_vars

C18_Witness ==
  /\ last.op = "sendMessageResume"
  /\ last.threw
  /\ last.val.message = Str("bad request")
  /\ Log(localStorage, "companion") = Arr(<<UserMessage(Str("hi"), 0)>>)
  /\ Log(localStorage, "code") = Arr(<<>>)
  /\ ~isWaitingForResponse

\* C19: never more than one getResponse call is outstanding, and a
\* sendMessage invoked while one is returns without saving a message and
\* without issuing a request
C19_OneTurnInFlight ==
  /\ [](Len(turns) <= 1)
  /\ [][last'.op = "sendMessage" /\ Len(turns) > 0 =>
          /\ last'.val = Bool(FALSE)
          /\ localStorage' = localStorage
          /\ turns' = turns]_vars

C19_Witness ==
  /\ last.op = "sendMessage"
  /\ last.args[1] = Str("hi")
  /\ last.val = Bool(FALSE)
  /\ Len(turns) = 1
  /\ turns[1].pc = "awaiting"
  /\ currentPersona = "code"
  /\ turns[1].persona = "companion"

\* SendMessageResume seen through the list of suspended calls: it is the one
\* step that takes a settled call off the list, and it can be taken whenever
\* there is one
TurnResumes ==
  \E i \in 1..Len(turns) : turns[i].pc = "settled" /\ turns' = Remove(turns, i)

\* the continuation of a settled getResponse promise is a job of the event
\* loop, which runs every job queued; nothing makes the remote endpoint
\* answer
SpecUiFair == SpecUi /\ WF_turns(TurnResumes)

\* C23: a turn whose remote call has settled, with success or failure,
\* leads to isWaitingForResponse = false, which re-enables sending; while a
\* turn is suspended the flag is true, and a turn whose call has not
\* settled stays suspended with the flag true whatever else happens
C23_SettledTurnReenablesSending ==
  /\ (Len(turns) > 0 /\ turns[1].pc = "settled") ~> ~isWaitingForResponse
  /\ [](Len(turns) > 0 => isWaitingForResponse)
  /\ [][Len(turns) > 0 /\ turns[1].pc = "awaiting"
          => Len(turns') > 0 /\ isWaitingForResponse']_vars

C23_Witness ==
  /\ last.op = "sendMessageResume"
  /\ last.threw
  /\ turns = <<>>
  /\ ~isWaitingForResponse

\* C24: the reply of a turn is appended to the log of the persona that
\* received the turn's user message, and to no other log, whatever
\* switchPersona events came while getResponse was outstanding
C24_ReplyGoesToTurnPersona ==
  [][last'.op = "sendMessageResume" /\ ~last'.threw =>
       LET p == last'.args[1].v
           old == Log(localStorage, p).v
           new == Log(localStorage', p).v IN
       /\ Len(new) = Len(old) + 1
       /\ Prop(new[Len(new)], "type") = Str("ai")
       /\ \A q \in UiPersonas \ {p} :
            Log(localStorage', q) = Log(localStorage, q)]_vars

\* C25: in every persona's log each 'ai' message comes right after a
\* 'user' message
C25_AiFollowsUser ==
  \A p \in UiPersonas :
    LET log == Log(localStorage, p).v IN
    \A k \in 1..Len(log) :
      Prop(log[k], "type") = Str("ai") =>
        k > 1 /\ Prop(log[k - 1], "type") = Str("user")

(***************************************************************************)
(* The conversation store over a working substrate.                        *)
(***************************************************************************)
SuppliedTimestamp == Str(IsoTable[Len(IsoTable)])

MessageInputs ==
  { Obj([type |-> Str("user"), text |-> Str("hi")]),
    Obj([type |-> Str("ai"), text |-> Str("yo"), timestamp |-> SuppliedTimestamp]) }

LogPersonas == {"companion", "code", "pirate"}

PersonaConfigInputs ==
  { Persona(Str("Buddy"), Str("Cheerful"), Num(7), Str("You are Buddy.")) }

ConfigPersonas == {"companion"}

NextStore ==
  \/ Tick
  \/ \E aiType \in LogPersonas, message \in MessageInputs :
       AddMessage(aiType, message, NoFault)
  \/ \E persona \in LogPersonas : ClearChatHistory(persona, NoFault)
  \/ ClearAllChatHistory(NoFault)
  \/ ClearAll(NoFault)
  \/ \E aiType \in ConfigPersonas, persona \in PersonaConfigInputs :
       SavePersona(aiType, persona, NoFault)
  \/ RoundTrip

SpecStore == Init /\ [][NextStore]_vars

\* the message addMessage stores for a caller's message at a time
Stamped(message, time) ==
  IF "timestamp" \in DOMAIN message.v THEN message
  ELSE SetProp(message, "timestamp", toISOString(time))

\* C4: for any persona id, every addMessage call on a working store returns
\* true and extends the log getChatHistory returns by exactly the caller's
\* message, at its end, with the caller's timestamp or the current time
C4_AppendInCallOrder ==
  [][last'.op = "addMessage" =>
       /\ last'.val = Bool(TRUE)
       /\ Log(localStorage', last'.args[1].v)
            = Arr(Append(Log(localStorage, last'.args[1].v).v,
                         Stamped(last'.args[2], clock)))]_vars

\* C5: clearChatHistory(p) leaves getChatHistory(p) empty and the log of
\* every other persona as it was
C5_ClearLogFrame ==
  [][last'.op = "clearChatHistory" =>
       /\ Log(localStorage', last'.args[1].v) = Arr(<<>>)
       /\ \A q \in PersonaInputs \ {last'.args[1].v} :
            Log(localStorage', q) = Log(localStorage, q)]_vars

C5_Witness ==
  /\ last.op = "clearChatHistory"
  /\ last.args[1] = Str("companion")
  /\ Log(localStorage, "companion") = Arr(<<>>)
  /\ LogLen(localStorage, "code") = MaxLog

\* C8: importData(exportData()) into a fresh store yields the same logs
\* and the same config for every known persona id
C8_ExportImportRoundTrip ==
  last.op = "roundTrip" =>
    /\ last.val = Bool(TRUE)
    /\ getConversations(freshStorage, NoFault) = getConversations(localStorage, NoFault)
    /\ \A id \in KnownIds :
         getPersona(freshStorage, id, NoFault) = getPersona(localStorage, id, NoFault)

\* on the three known ids the append holds
AppendOnKnownIds ==
  [][last'.op = "addMessage" /\ last'.args[1].v \in KnownIds =>
       /\ last'.val = Bool(TRUE)
       /\ Log(localStorage', last'.args[1].v)
            = Arr(Append(Log(localStorage, last'.args[1].v).v,
                         Stamped(last'.args[2], clock)))]_vars

C8_Witness ==
  /\ last.op = "roundTrip"
  /\ LogLen(localStorage, "companion") = MaxLog
  /\ LogLen(freshStorage, "companion") = MaxLog
  /\ localStorage["personas"] # Null
  /\ getPersona(freshStorage, "companion", NoFault).val \in PersonaConfigInputs

(***************************************************************************)
(* One Storage call against every state and every fault of the substrate.  *)
(***************************************************************************)
CorruptText == Str("{not json")

StoredMessage ==
  Obj([type |-> Str("user"), text |-> Str("hi"), timestamp |-> toISOString(0)])

StoredConversations ==
  Obj([companion |-> Arr(<<StoredMessage>>), code |-> Arr(<<StoredMessage, StoredMessage>>),
       study |-> Arr(<<>>)])

StoredPersonas ==
  Obj([companion |-> Persona(Str("Buddy"), Str("Cheerful"), Num(7), Str("You are Buddy."))])

FaultStores ==
  { [k \in LocalKeys |->
       CASE k = "conversations" -> c
         [] k = "personas" -> p
         [] k = "settings" -> s
         [] k = "adminTokenExpiry" -> e
         [] OTHER -> Null]
    : c \in {Null, CorruptText, JsonText(Null), JsonText(StoredConversations)},
      p \in {Null, CorruptText, JsonText(Null), JsonText(StoredPersonas)},
      s \in {Null, CorruptText},
      e \in {Null, toISOString(0)} }

InitFault ==
  /\ localStorage \in FaultStores
  /\ sessionStorage \in {EmptySession, [k \in SessionKeys |-> Str("true")]}
  /\ clock = 0
  /\ last = NoCall
  /\ freshStorage = EmptyLocal
  /\ ApiIdle
  /\ UiLoaded
  /\ AuthLoaded
  /\ TabsIdle

\* what importData is called with
ImportInputs ==
  { Undef, Null, Str("oops"), Str(""), Num(7), Bool(TRUE),
    Arr(<<>>),
    Obj(<<>>),
    Obj([conversations |-> StoredConversations]),
    Obj([personas |-> StoredPersonas]),
    Obj([conversations |-> EmptyConversations, personas |-> StoredPersonas]),
    Obj([conversations |-> EmptyConversations,
         personas |-> Obj([companion |-> BigInt(1)])]),
    Obj([conversations |-> Obj([companion |-> Str("oops")])]) }

FaultPersonas == {"companion", "pirate"}

NextFault ==
  /\ last.op = "none"
  /\ \E f \in FaultPlans :
       \/ \E aiType \in FaultPersonas, message \in MessageInputs :
            AddMessage(aiType, message, f)
       \/ \E persona \in FaultPersonas, message \in MessageInputs :
            SaveMessage(persona, message, f)
       \/ \E aiType \in FaultPersonas : SaveConversation(aiType, Arr(<<StoredMessage>>), f)
       \/ \E persona \in FaultPersonas : ClearChatHistory(persona, f)
       \/ ClearAllChatHistory(f)
       \/ ClearAll(f)
       \/ \E aiType \in FaultPersonas, persona \in PersonaConfigInputs :
            SavePersona(aiType, persona, f)
       \/ \E data \in ImportInputs : ImportData(data, f)
       \/ SaveApiKey(Str("key-1"), f)
       \/ \E expiresAt \in {Undef, toISOString(1)} : SetAdminToken(Str("token-1"), expiresAt, f)
       \/ ClearAdminToken(f)
       \/ SetAdminCode(Str("secret"), f)
       \/ \E authenticated \in {Bool(TRUE), Bool(FALSE)} : SetAdminAuth(authenticated, f)
       \/ \E persona \in FaultPersonas : SetCurrentPersona(persona, f)
       \/ UpdateSettings(Obj([theme |-> Str("dark")]), f)
       \/ GetConversations(f)
       \/ \E persona \in FaultPersonas : GetChatHistory(persona, f)
       \/ ExportAllHistory(f)
       \/ \E aiType \in PersonaInputs : GetPersona(aiType, f)
       \/ GetApiKey(f)
       \/ GetAdminToken(f)
       \/ GetAdminTokenExpiry(f)
       \/ IsAdminTokenExpired(f)
       \/ \E configCode \in ConfigCodes : GetAdminCode(configCode, f)
       \/ IsAdminAuthenticated(f)
       \/ ExportData(f)
       \/ GetCurrentPersona(f)
       \/ GetSettings(f)

SpecFault == InitFault /\ [][NextFault]_vars

\* a value that is not an object
Malformed(data) == data.t = "null" \/ TypeOf(data) # "object"

\* C6: importData of a value that is not an object returns false and leaves
\* every stored key as it was
C6_MalformedImportRejected ==
  [][last'.op = "importData" /\ Malformed(last'.args[1]) =>
       /\ last'.val = Bool(FALSE)
       /\ localStorage' = localStorage
       /\ sessionStorage' = sessionStorage]_vars

C6_Witness ==
  /\ last.op = "importData"
  /\ last.args[1] = Str("oops")
  /\ last.val = Bool(FALSE)
  /\ localStorage["conversations"] = JsonText(StoredConversations)
  /\ localStorage["personas"] = JsonText(StoredPersonas)

\* C7: whenever importData returns false, the conversations blob and the
\* personas blob are the ones stored before the call
C7_NoPartialWrite ==
  [][last'.op = "importData" /\ last'.val = Bool(FALSE) =>
       /\ localStorage'["conversations"] = localStorage["conversations"]
       /\ localStorage'["personas"] = localStorage["personas"]]_vars

\* the operations that reach a first setItem call, or fail before it
SetItemWriters ==
  {"addMessage", "saveMessage", "saveConversation", "clearChatHistory",
   "clearAllChatHistory", "savePersona", "saveApiKey", "setAdminToken",
   "setAdminCode", "setAdminAuth", "setCurrentPersona", "updateSettings"}

\* what a read returns when getItem raises
ReadDefault(call) ==
  CASE call.op \in {"getConversations", "exportAllHistory"} -> EmptyConversations
    [] call.op = "getChatHistory" -> Arr(<<>>)
    [] call.op = "getPersona" -> genericPersona(call.args[1].v)
    [] call.op \in {"getApiKey", "getAdminToken", "getAdminTokenExpiry", "getAdminCode"} -> Null
    [] call.op = "isAdminTokenExpired" -> Bool(TRUE)
    [] call.op = "isAdminAuthenticated" -> Bool(FALSE)
    [] call.op = "getCurrentPersona" -> Str("companion")
    [] call.op = "getSettings" -> defaultSettings
    [] call.op = "exportData" ->
         Obj([conversations |-> EmptyConversations,
              personas |-> Obj([k \in KnownIds |-> genericPersona(k)]),
              exportDate |-> toISOString(clock)])

Readers ==
  {"getConversations", "exportAllHistory", "getChatHistory", "getPersona", "getApiKey",
   "getAdminToken", "getAdminTokenExpiry", "getAdminCode", "isAdminTokenExpired",
   "isAdminAuthenticated", "getCurrentPersona", "getSettings", "exportData"}

\* C10: no Storage operation throws, whatever the substrate holds or raises:
\* a read whose getItem raises returns its default, a write whose setItem,
\* removeItem or clear raises returns false, and getChatHistory returns an
\* empty log when nothing is stored or the stored text does not parse
C10_NoStorageCallThrows ==
  /\ ~last.threw
  /\ (last.op \in Readers /\ last.fault.getItem = 1 => last.val = ReadDefault(last))
  /\ (last.op \in SetItemWriters /\ last.fault.setItem = 1 => last.val = Bool(FALSE))
  /\ (last.op = "clearAdminToken" /\ last.fault.removeItem # 0 => last.val = Bool(FALSE))
  /\ (last.op = "clearAll" /\ last.fault.clear # 0 => last.val = Bool(FALSE))
  /\ (last.op = "getChatHistory" /\ localStorage["conversations"] \in {Null, CorruptText}
        => last.val = Arr(<<>>))

C10_Witness ==
  /\ last.op = "getChatHistory"
  /\ last.args[1] = Str("companion")
  /\ last.fault.getItem = 1
  /\ localStorage["conversations"] = JsonText(StoredConversations)
  /\ last.val = Arr(<<>>)

\* the personas blob holds a config under the id
HasStoredConfig(ls, id) ==
  /\ ls["personas"].t = "json"
  /\ ls["personas"].v.t = "obj"
  /\ id \in DOMAIN ls["personas"].v.v

NonEmptyString(x) == x.t = "str" /\ x.v # ""

\* C12: for a known persona id with no stored config, whatever else the
\* store holds or raises, getPersona returns a config whose name and
\* systemPrompt are non-empty strings
C12_DefaultPersonaNonEmpty ==
  last.op = "getPersona" /\ last.args[1].v \in KnownIds
    /\ ~HasStoredConfig(localStorage, last.args[1].v) =>
      /\ NonEmptyString(Prop(last.val, "name"))
      /\ NonEmptyString(Prop(last.val, "systemPrompt"))

C12_Witness ==
  /\ last.op = "getPersona"
  /\ last.args[1] = Str("code")
  /\ last.fault = NoFault
  /\ localStorage["personas"] = JsonText(StoredPersonas)
  /\ last.val = Prop(defaultPersonas, "code")

(***************************************************************************)
(* Persona configs: saves, reads, imports and the global clear.            *)
(***************************************************************************)
\* the configs callers save: a full one and one with an empty name alone
PersonaSaveInputs == PersonaConfigInputs \cup {Obj([name |-> Str("")])}

SavePersonas == {"companion", "code", "pirate"}

\* imports of persona configs: an object of configs, and an array
PersonaImports == {Obj([personas |-> StoredPersonas]), Obj([personas |-> Arr(<<>>)])}

NextPersona ==
  \/ \E aiType \in SavePersonas, persona \in PersonaSaveInputs :
       SavePersona(aiType, persona, NoFault)
  \/ \E aiType \in SavePersonas : GetPersona(aiType, NoFault)
  \/ \E data \in PersonaImports : ImportData(data, NoFault)
  \/ ClearAll(NoFault)

SpecPersona == Init /\ [][NextPersona]_vars

Config(ls, id) == getPersona(ls, id, NoFault).val

\* C13: on a working substrate savePersona(id, config) returns true, after
\* which getPersona(id) is exactly config and getPersona of every other id
\* is what it was
C13_SavePersonaOverwrites ==
  [][last'.op = "savePersona" =>
       /\ last'.val = Bool(TRUE)
       /\ Config(localStorage', last'.args[1].v) = last'.args[2]
       /\ \A q \in PersonaInputs \ {last'.args[1].v} :
            Config(localStorage', q) = Config(localStorage, q)]_vars

\* the personas blob is absent or holds an object
PersonasIsObject(ls) ==
  ls["personas"] = Null \/ (ls["personas"].t = "json" /\ ls["personas"].v.t = "obj")

\* over a personas blob that is absent or an object the overwrite holds
SaveOverObjectBlob ==
  [][last'.op = "savePersona" /\ PersonasIsObject(localStorage) =>
       /\ last'.val = Bool(TRUE)
       /\ Config(localStorage', last'.args[1].v) = last'.args[2]
       /\ \A q \in PersonaInputs \ {last'.args[1].v} :
            Config(localStorage', q) = Config(localStorage, q)]_vars

(***************************************************************************)
(* Imports and whole-log saves among the other writes of the store.        *)
(***************************************************************************)
\* what importData is called with here: the inputs above and objects whose
\* top-level keys hold null
ImportFrameInputs ==
  ImportInputs \cup
    { Obj([conversations |-> Null, personas |-> StoredPersonas]),
      Obj([conversations |-> StoredConversations, personas |-> Null]) }

SavedLogs == {Arr(<<>>), Arr(<<StoredMessage>>)}

NextImport ==
  \/ \E data \in ImportFrameInputs : ImportData(data, NoFault)
  \/ \E aiType \in FaultPersonas, messages \in SavedLogs :
       SaveConversation(aiType, messages, NoFault)
  \/ \E aiType \in FaultPersonas : AddMessage(aiType, StoredMessage, NoFault)
  \/ \E persona \in FaultPersonas : GetChatHistory(persona, NoFault)
  \/ SetCurrentPersona("code", NoFault)
  \/ SetAdminToken(Str("token-1"), toISOString(1), NoFault)
  \/ SetAdminAuth(Bool(TRUE), NoFault)

SpecImport == Init /\ [][NextImport]_vars

\* C11: in every store state, also after an importData that returned true
\* and after a saveConversation, getChatHistory(p) returns an array
C11_LogIsAlwaysArray ==
  \A p \in PersonaInputs : getChatHistory(localStorage, p, NoFault).val.t = "arr"

\* an object whose values a JSON text can hold
WellFormedImport(data) == data.t \in {"obj", "arr"} /\ ~HasBigInt(data)

\* the import has the top-level key
Present(data, key) == data.t = "obj" /\ key \in DOMAIN data.v

\* the import has the top-level key with a value that is not null, false,
\* 0 or the empty string
Supplied(data, key) == Truthy(Prop(data, key))

\* the keys an import never writes
ImportFrame == LocalKeys \ {"conversations", "personas"}

\* C14: importData with a well-formed object replaces the whole
\* conversations blob exactly when data.conversations is present, the whole
\* personas blob exactly when data.personas is present, and changes neither
\* currentPersona, the admin token, its expiry nor the session flag
C14_ImportReplacesPresentKeys ==
  [][last'.op = "importData" /\ WellFormedImport(last'.args[1]) =>
       /\ \A key \in {"conversations", "personas"} :
            localStorage'[key] =
              IF Present(last'.args[1], key)
                THEN JSONstringify(Prop(last'.args[1], key)).val
                ELSE localStorage[key]
       /\ \A key \in ImportFrame : localStorage'[key] = localStorage[key]
       /\ sessionStorage' = sessionStorage]_vars

\* C14 as amended: a blob is replaced exactly when the import holds a
\* truthy value under its key
C14_ImportReplacesSuppliedKeys ==
  [][last'.op = "importData" /\ WellFormedImport(last'.args[1]) =>
       /\ last'.val = Bool(TRUE)
       /\ \A key \in {"conversations", "personas"} :
            localStorage'[key] =
              IF Supplied(last'.args[1], key)
                THEN JSONstringify(Prop(last'.args[1], key)).val
                ELSE localStorage[key]
       /\ \A key \in ImportFrame : localStorage'[key] = localStorage[key]
       /\ sessionStorage' = sessionStorage]_vars

C14_Witness ==
  /\ last.op = "importData"
  /\ last.args[1] = Obj([personas |-> StoredPersonas])
  /\ last.val = Bool(TRUE)
  /\ localStorage["personas"] = JsonText(StoredPersonas)
  /\ localStorage["conversations"] = JsonText(StoredConversations)
  /\ localStorage["currentPersona"] = Str("code")
  /\ localStorage["adminToken"] = Str("token-1")
  /\ sessionStorage["adminAuth"] = Str("true")

(***************************************************************************)
(* The admin token and its expiry as time passes.                          *)
(***************************************************************************)
TokenInputs == {Str("token-1"), Str("token-2")}

ExpiryInputs ==
  {Undef, Str("not-a-date"), Str("1767225600000")}
    \cup {toISOString(time) : time \in 0..(MaxClock + 1)}

NextToken ==
  \/ Tick
  \/ \E token \in TokenInputs, expiresAt \in ExpiryInputs :
       SetAdminToken(token, expiresAt, NoFault)
  \/ ClearAdminToken(NoFault)
  \/ GetAdminToken(NoFault)
  \/ GetAdminTokenExpiry(NoFault)
  \/ IsAdminTokenExpired(NoFault)

SpecToken == Init /\ [][NextToken]_vars

\* the stored expiry denotes a time strictly later than the current time
ExpiryInFuture ==
  LET expiry == localStorage["adminTokenExpiry"] IN
  /\ expiry.t = "str"
  /\ \E i \in 1..Len(IsoTable) : IsoTable[i] = expiry.v /\ i - 1 > clock

\* C9: isAdminTokenExpired returns false only when the stored expiry
\* denotes a time strictly later than now, and true otherwise
C9_ExpiredUnlessFutureExpiry ==
  last.op = "isAdminTokenExpired" => last.val = Bool(~ExpiryInFuture)

\* C29: the stored expiry is the one passed with the latest setAdminToken:
\* after a setAdminToken that returns true the expiry read back is the
\* expiry of that call, absent when the call passed none, and after
\* clearAdminToken token and expiry are both absent
C29_ExpiryBelongsToToken ==
  [][/\ last'.op = "setAdminToken" /\ last'.val = Bool(TRUE) =>
          /\ getAdminToken(localStorage', NoFault).val = last'.args[1]
          /\ getAdminTokenExpiry(localStorage', NoFault).val
               = IF Truthy(last'.args[2]) THEN last'.args[2] ELSE Null
     /\ last'.op = "clearAdminToken" /\ last'.val = Bool(TRUE) =>
          /\ getAdminToken(localStorage', NoFault).val = Null
          /\ getAdminTokenExpiry(localStorage', NoFault).val = Null]_vars

(***************************************************************************)
(* The completion gateway on its own: one getResponse call at a time       *)
(* against every answer of the remote endpoint.                            *)
(***************************************************************************)
UserTexts == {Str("hello"), Str("help me")}

\* what response.json() can complete with
ResponseBodies ==
  { Err("SyntaxError", Str("Unexpected token < in JSON")),
    Ok(Null),
    Ok(Str("oops")),
    Ok(Obj(<<>>)),
    Ok(Obj([error |-> Str("boom")])),
    Ok(Obj([error |-> Obj([message |-> Str("rate limited")])])),
    Ok(Obj([message |-> Str("bad request")])),
    Ok(Obj([choices |-> Arr(<<>>)])),
    Ok(Obj([choices |-> Arr(<< Null >>)])),
    Ok(Obj([choices |-> Arr(<< Obj(<<>>) >>)])),
    Ok(Obj([choices |-> Arr(<< Obj([message |-> Obj(<<>>)]) >>)])),
    Ok(Obj([choices |-> Arr(<< Obj([message |-> Obj([content |-> Str("Hi there")])]) >>)])) }

GetResponseCall(persona, userMessage) ==
  /\ apiPc = "idle"
  /\ apiPc' = "awaiting"
  /\ apiCall' = [persona |-> persona, userMessage |-> userMessage,
                 request |-> getResponseRequest(localStorage, persona, userMessage)]
  /\ UNCHANGED <<apiTransport, apiOutcome>>
  /\ UNCHANGED <<storeVars, uiVars, authVars, tabVars>>

FetchRejects(error) ==
  /\ apiPc = "awaiting"
  /\ apiPc' = "settled"
  /\ apiTransport' = [threw |-> TRUE, val |-> error]
  /\ apiOutcome' = getResponseSettle(apiTransport')
  /\ UNCHANGED apiCall
  /\ UNCHANGED <<storeVars, uiVars, authVars, tabVars>>

FetchResolves(status, json) ==
  /\ apiPc = "awaiting"
  /\ apiPc' = "settled"
  /\ apiTransport' = Ok([status |-> status, json |-> json])
  /\ apiOutcome' = getResponseSettle(apiTransport')
  /\ UNCHANGED apiCall
  /\ UNCHANGED <<storeVars, uiVars, authVars, tabVars>>

GetResponseReturn ==
  /\ apiPc = "settled"
  /\ apiPc' = "idle"
  /\ UNCHANGED <<apiCall, apiTransport, apiOutcome>>
  /\ UNCHANGED <<storeVars, uiVars, authVars, tabVars>>

NextApi ==
  \/ \E persona \in PersonaInputs, userMessage \in UserTexts :
       GetResponseCall(persona, userMessage)
  \/ \E error \in TransportErrors : FetchRejects(error)
  \/ \E status \in Statuses, json \in ResponseBodies : FetchResolves(status, json)
  \/ GetResponseReturn

SpecApi == Init /\ [][NextApi]_vars

(***************************************************************************)
(* Claims about API.getResponse.                                           *)
(***************************************************************************)
Settled == apiPc = "settled"
Rejected == Settled /\ apiTransport.threw
Responded == Settled /\ ~apiTransport.threw
NotOk == Responded /\ ~ResponseOk(apiTransport.val)
IsOk == Responded /\ ResponseOk(apiTransport.val)
BodyParsed == Responded /\ ~apiTransport.val.json.threw
Body == apiTransport.val.json.val

\* the human-readable message a JSON error body carries: error as a
\* string, error.message or message
BodyMessages(body) ==
  IF body.t # "obj" THEN {} ELSE
  {m \in {Prop(body, "error"), Prop(body, "message"),
          IF Prop(body, "error").t = "obj" THEN Prop(Prop(body, "error"), "message")
          ELSE Undef} : m.t = "str"}

\* C1: a non-success status fails with the message of the JSON error body
\* when the body carries one, and with "request failed with status N" only
\* when the body cannot be parsed; 500 with {error: "boom"} fails with "boom"
C1_UpstreamMessageFromBody ==
  NotOk =>
    /\ apiOutcome.threw
    /\ (BodyParsed /\ BodyMessages(Body) # {}
          => apiOutcome.val.message \in BodyMessages(Body))
    /\ (apiOutcome.val.message = RequestFailedMessage(apiTransport.val.status)
          => ~BodyParsed)

\* the shape { choices: [ { message: { content } } ] }
WellFormedBody(body) ==
  /\ body.t = "obj"
  /\ Prop(body, "choices").t = "arr"
  /\ Len(Prop(body, "choices").v) > 0
  /\ First(Prop(body, "choices")).t = "obj"
  /\ Prop(First(Prop(body, "choices")), "message").t = "obj"
  /\ Prop(Prop(First(Prop(body, "choices")), "message"), "content").t = "str"

\* C2: a success status whose parsed body does not have the expected shape
\* fails with "Unexpected response format", never succeeds and never fails
\* with the connectivity error
C2_MalformedBodyRejected ==
  IsOk /\ BodyParsed /\ ~WellFormedBody(Body) =>
    /\ apiOutcome.threw
    /\ apiOutcome.val.message = UnexpectedFormatMessage

\* C3: when fetch rejects the call fails with the "Unable to connect"
\* message, and no failure on a non-success status carries that message
C3_ConnectivityMessageDistinct ==
  /\ Rejected => apiOutcome.threw /\ apiOutcome.val.message = UnableToConnectMessage
  /\ NotOk => apiOutcome.threw /\ apiOutcome.val.message # UnableToConnectMessage

C3_Witness ==
  Rejected /\ apiOutcome.threw /\ apiOutcome.val.message = UnableToConnectMessage

(***************************************************************************)
(* Auth (auth.js) and the AuthAPI it calls.  AuthAPI is not among the      *)
(* sources; it is modelled from the specification: login stores the bearer *)
(* token and the expiry the backend returns, logout clears them, and       *)
(* getAuthHeader yields the bearer header of a stored token that has not   *)
(* expired.                                                                *)
(***************************************************************************)
MaxLogins == 1

\* `Bearer ${token}`
Bearer(token) == Str("Bearer " \o token.v)

AuthAPI_getAuthHeader(ls, time) ==
  LET token == getAdminToken(ls, NoFault).val IN
  IF ~Truthy(token) \/ Truthy(isAdminTokenExpired(ls, time, NoFault).val) THEN Null
  ELSE Obj([Authorization |-> Bearer(token)])

AuthAPI_logout(ls, ss) == clearAdminToken(ls, ss, NoFault)

\* what login leaves in the stores once the backend has answered
AuthAPI_loginSettled(ls, ss, result) ==
  IF result.threw THEN Done(result, ls, ss) ELSE
  LET w == setAdminToken(ls, ss, Prop(result.val, "token"),
                         Prop(result.val, "expiresAt"), NoFault) IN
  Done(result, w.ls, w.ss)

\* lines 100-109 and 132-136: unlockAdmin after its await
unlockAdminSettled(ls, ss, result) ==
  IF result.threw THEN [threw |-> TRUE, val |-> result.val, ls |-> ls, ss |-> ss,
                        authenticated |-> FALSE]
  ELSE LET w == setAdminAuth(ls, ss, Bool(TRUE), NoFault) IN
       [threw |-> FALSE, val |-> Undef, ls |-> w.ls, ss |-> w.ss, authenticated |-> TRUE]

\* lines 156-161
logoutAdmin(ls, ss) ==
  LET a == setAdminAuth(ls, ss, Bool(FALSE), NoFault)
      b == AuthAPI_logout(a.ls, a.ss) IN
  Done(Ok(Undef), b.ls, b.ss)

NoTokenMessage == Str("No valid authentication token available. Please login again.")
SessionExpiredMessage == Str("Session expired. Please login again.")
InsufficientPermissionsMessage == Str("Insufficient permissions")

\* a request that goes out whether or not there is a header
makeAuthenticatedRequestStart_NoHeaderCheck(authHeader, options) ==
  Ok(Spread(options, "headers", Merge(Prop(options, "headers"), authHeader)))

\* lines 206-225: makeAuthenticatedRequest up to its await: the error it
\* throws, or the options it passes to fetch
makeAuthenticatedRequestStart(authHeader, options) ==
  IF ~Truthy(authHeader) THEN Err("Error", NoTokenMessage)
  ELSE Ok(Spread(options, "headers", Merge(Prop(options, "headers"), authHeader)))

\* a handler that treats 403 as it treats 401
makeAuthenticatedRequestSettled_ForbiddenClears(ls, ss, response) ==
  IF response.status \in {401, 403}
    THEN LET a == AuthAPI_logout(ls, ss)
             b == setAdminAuth(a.ls, a.ss, Bool(FALSE), NoFault) IN
         Done(Err("Error", IF response.status = 401 THEN SessionExpiredMessage
                           ELSE InsufficientPermissionsMessage), b.ls, b.ss)
  ELSE Done(Ok(Num(response.status)), ls, ss)

\* lines 229-243: makeAuthenticatedRequest after its await, on a response
makeAuthenticatedRequestSettled(ls, ss, response) ==
  IF response.status = 401
    THEN LET a == AuthAPI_logout(ls, ss)
             b == setAdminAuth(a.ls, a.ss, Bool(FALSE), NoFault) IN
         Done(Err("Error", SessionExpiredMessage), b.ls, b.ss)
  ELSE IF response.status = 403
    THEN Done(Err("Error", InsufficientPermissionsMessage), ls, ss)
  ELSE Done(Ok(Num(response.status)), ls, ss)

\* Config.getAdminCode() (auth.js, lines 472-476)
Config_getAdminCode == Null

\* String.prototype.trim on the form values of the model
Trim(x) ==
  CASE x = Str(" hunter22 ") -> Str("hunter22")
    [] x = Str(" Buddy ") -> Str("Buddy")
    [] OTHER -> x

\* lines 25-32: the value init leaves in Auth.isAuthenticated
init(authenticated, ss) ==
  IF Truthy(isAdminAuthenticated(ss, NoFault).val) THEN TRUE ELSE authenticated

\* lines 376-378
isUnlocked(ss) == isAdminAuthenticated(ss, NoFault)

\* lines 385-395: authenticated is the value it leaves in Auth.isAuthenticated
verifyPasscode(ls, ss, inputPasscode) ==
  LET correctPasscode == getAdminCode(ls, Config_getAdminCode, NoFault).val
      authenticated == (inputPasscode = correctPasscode)
      w == IF authenticated THEN setAdminAuth(ls, ss, Bool(TRUE), NoFault)
           ELSE Done(Ok(Undef), ls, ss) IN
  [threw |-> FALSE, val |-> Bool(authenticated), ls |-> w.ls, ss |-> w.ss,
   authenticated |-> authenticated]

ChangeResult(success, message) ==
  Obj([success |-> Bool(success), message |-> Str(message)])

\* lines 403-431
changePasscode(authenticated, ls, ss, currentPasscode, newPasscode) ==
  IF ~authenticated
    THEN Done(Ok(ChangeResult(FALSE,
           "Not authenticated. Please verify your current passcode first.")), ls, ss)
  ELSE IF ~Truthy(newPasscode) \/ Len(Trim(newPasscode).v) < 4
    THEN Done(Ok(ChangeResult(FALSE,
           "New passcode must be at least 4 characters long.")), ls, ss)
  ELSE LET w == setAdminCode(ls, ss, Trim(newPasscode), NoFault) IN
       IF Truthy(w.val)
         THEN Done(Ok(ChangeResult(TRUE, "Passcode updated successfully!")), w.ls, w.ss)
         ELSE Done(Ok(ChangeResult(FALSE,
                "Failed to update passcode. Please try again.")), w.ls, w.ss)

\* lines 444-449: the value it leaves in Auth.isAuthenticated and returns
checkAuth(ss) == Truthy(isAdminAuthenticated(ss, NoFault).val)

\* a step of Auth: the stores it leaves and the call it made
AuthStep(op, args, r) ==
  /\ localStorage' = r.ls
  /\ sessionStorage' = r.ss
  /\ last' = Call(op, args, NoFault, r)
  /\ freshStorage' = EmptyLocal
  /\ UNCHANGED clock
  /\ UNCHANGED <<apiVars, uiVars, tabVars>>

UnlockAdmin(inputCode) ==
  /\ logins < MaxLogins
  /\ AuthStep("unlockAdmin", <<inputCode>>, Done(Ok(Undef), localStorage, sessionStorage))
  /\ logins' = IF Truthy(inputCode) THEN logins + 1 ELSE logins
  /\ UNCHANGED <<isAuthenticated, authPc, authCall, authOutcome>>

\* AuthAPI.login settles and the suspended unlockAdmin resumes
LoginSettles(result) ==
  /\ logins > 0
  /\ LET l == AuthAPI_loginSettled(localStorage, sessionStorage, result)
         r == unlockAdminSettled(l.ls, l.ss, result) IN
     /\ AuthStep("unlockAdminResume", <<>>, r)
     /\ isAuthenticated' = (isAuthenticated \/ r.authenticated)
  /\ logins' = logins - 1
  /\ UNCHANGED <<authPc, authCall, authOutcome>>

LogoutAdmin ==
  /\ AuthStep("logoutAdmin", <<>>, logoutAdmin(localStorage, sessionStorage))
  /\ isAuthenticated' = FALSE
  /\ UNCHANGED <<logins, authPc, authCall, authOutcome>>

MakeAuthenticatedRequest(options) ==
  /\ authPc = "idle"
  /\ LET r == makeAuthenticatedRequestStart(
                AuthAPI_getAuthHeader(localStorage, clock), options) IN
     /\ AuthStep("makeAuthenticatedRequest", <<options>>,
                 Done(IF r.threw THEN r ELSE Ok(Undef), localStorage, sessionStorage))
     /\ authPc' = IF r.threw THEN "idle" ELSE "awaiting"
     /\ authCall' = IF r.threw THEN authCall ELSE r.val
     /\ authOutcome' = IF r.threw THEN r ELSE authOutcome
  /\ UNCHANGED <<isAuthenticated, logins>>

\* fetch rejects: the error propagates to the caller
AuthFetchRejects(error) ==
  /\ authPc = "awaiting"
  /\ AuthStep("makeAuthenticatedRequestResume", <<Undef>>,
              Done([threw |-> TRUE, val |-> error], localStorage, sessionStorage))
  /\ authPc' = "idle"
  /\ authOutcome' = [threw |-> TRUE, val |-> error]
  /\ UNCHANGED <<isAuthenticated, logins, authCall>>

AuthFetchResolves(status) ==
  /\ authPc = "awaiting"
  /\ LET r == makeAuthenticatedRequestSettled(localStorage, sessionStorage,
                                              [status |-> status]) IN
     /\ AuthStep("makeAuthenticatedRequestResume", <<Num(status)>>, r)
     /\ authOutcome' = [threw |-> r.threw, val |-> r.val]
  /\ authPc' = "idle"
  /\ UNCHANGED <<isAuthenticated, logins, authCall>>

\* the codes typed, what the backend answers to a login at a time, the
\* options of a protected call and the statuses that come back
CodeInputs == {Str(""), Str("admin123")}

LoginResults(time) ==
  {Err("Error", Str("Invalid admin code"))} \cup
    {Ok(Obj([token |-> token, expiresAt |-> toISOString(time + 1)])) : token \in TokenInputs}

RequestOptions ==
  {Obj(<<>>), Obj([headers |-> Obj([Authorization |-> Str("Bearer forged")])])}

AuthStatuses == {200, 401, 403, 500}

NextAuth ==
  \/ Tick
  \/ \E inputCode \in CodeInputs : UnlockAdmin(inputCode)
  \/ \E result \in LoginResults(clock) : LoginSettles(result)
  \/ LogoutAdmin
  \/ \E options \in RequestOptions : MakeAuthenticatedRequest(options)
  \/ \E error \in TransportErrors : AuthFetchRejects(error)
  \/ \E status \in AuthStatuses : AuthFetchResolves(status)

SpecAuth == Init /\ [][NextAuth]_vars

(***************************************************************************)
(* Claims about Auth.makeAuthenticatedRequest.                             *)
(***************************************************************************)
AuthRequestOps == {"makeAuthenticatedRequest", "makeAuthenticatedRequestResume"}

TokenKeys == {"adminToken", "adminTokenExpiry"}

\* C16: makeAuthenticatedRequest clears the stored token exactly when the
\* response status is 401: on a 401 the token, its expiry and the session
\* flag are cleared in the step that raises the failure; on a 403 the call
\* fails with 'Insufficient permissions' and token and expiry stay; no
\* other step of the call touches them
C16_TokenClearedExactlyOn401 ==
  [][last'.op \in AuthRequestOps =>
       IF last'.op = "makeAuthenticatedRequestResume" /\ last'.args[1] = Num(401)
         THEN /\ \A key \in TokenKeys : localStorage'[key] = Null
              /\ isAdminAuthenticated(sessionStorage', NoFault).val = Bool(FALSE)
              /\ last'.threw
              /\ last'.val.message = SessionExpiredMessage
         ELSE /\ \A key \in TokenKeys : localStorage'[key] = localStorage[key]
              /\ (last'.op = "makeAuthenticatedRequestResume" /\ last'.args[1] = Num(403)
                    => last'.threw /\ last'.val.message = InsufficientPermissionsMessage)]_vars

C16_Witness ==
  /\ last.op = "makeAuthenticatedRequestResume"
  /\ last.args[1] = Num(403)
  /\ last.val.message = InsufficientPermissionsMessage
  /\ localStorage["adminToken"] = Str("token-1")
  /\ localStorage["adminTokenExpiry"] = toISOString(1)
  /\ sessionStorage["adminAuth"] = Str("true")

\* a token is stored and its stored expiry is later than now
ValidToken == Truthy(localStorage["adminToken"]) /\ ExpiryInFuture

\* C17: makeAuthenticatedRequest sends a request only when a token is
\* stored whose expiry lies in the future, and then with that token as the
\* bearer header; otherwise it fails without sending, whatever
\* Auth.isAuthenticated and the session flag say
C17_NoRequestWithoutValidToken ==
  [][last'.op = "makeAuthenticatedRequest" =>
       IF ValidToken
         THEN /\ authPc' = "awaiting"
              /\ Prop(Prop(authCall', "headers"), "Authorization")
                   = Bearer(localStorage["adminToken"])
         ELSE /\ authPc' = "idle"
              /\ authCall' = authCall
              /\ last'.threw
              /\ last'.val.message = NoTokenMessage]_vars

C17_Witness ==
  /\ last.op = "makeAuthenticatedRequest"
  /\ last.threw
  /\ authPc = "idle"
  /\ authCall = Undef
  /\ isAuthenticated
  /\ sessionStorage["adminAuth"] = Str("true")
  /\ Truthy(localStorage["adminToken"])
  /\ ~ExpiryInFuture

(***************************************************************************)
(* The page as a whole: one step of the chat, the persona settings, the    *)
(* admin session or the store, from the states a session passes through.   *)
(***************************************************************************)
\* the endpoint answers with a completion or cannot be reached
LogTransports ==
  {t \in UiTransports : t.threw \/ (t.val.status = 200 /\ WellFormedBody(t.val.json.val))}

AiMessage(text, time) ==
  Obj([type |-> Str("ai"), text |-> text, timestamp |-> toISOString(time)])

\* the log after n messages of a chat: user, ai, user, ...
ChatLog(n) ==
  Arr([i \in 1..n |-> IF i % 2 = 1 THEN UserMessage(Str("hi"), 0)
                      ELSE AiMessage(Str("Hi there"), 0)])

\* a store after some turns, with or without a saved config and a login
SessionStores ==
  { [k \in LocalKeys |->
       CASE k = "conversations" ->
              JsonText(Obj([companion |-> ChatLog(i), code |-> ChatLog(j),
                            study |-> Arr(<<>>)]))
         [] k = "personas" -> p
         [] k = "currentPersona" -> Str("companion")
         [] k = "adminToken" -> IF loggedIn THEN Str("token-1") ELSE Null
         [] k = "adminTokenExpiry" -> IF loggedIn THEN toISOString(1) ELSE Null
         [] OTHER -> Null]
    : i \in 0..MaxLog, j \in 0..MaxLog, p \in {Null, JsonText(StoredPersonas)},
      loggedIn \in BOOLEAN }

\* no sendMessage suspended, or one, before or after its fetch settled
SuspendedTurns(ls) ==
  {<<>>}
    \cup { <<Turn(p, Str("hi"), getResponseRequest(ls, p, Str("hi")))>> : p \in UiPersonas }
    \cup { << [Turn(p, Str("hi"), getResponseRequest(ls, p, Str("hi")))
                 EXCEPT !.pc = "settled", !.outcome = getResponseSettle(t)] >>
           : p \in UiPersonas, t \in LogTransports }

InitLog ==
  /\ localStorage \in SessionStores
  /\ sessionStorage =
       [k \in SessionKeys |-> IF localStorage["adminToken"] = Null THEN Null ELSE Str("true")]
  /\ clock = 0
  /\ last = NoCall
  /\ freshStorage = EmptyLocal
  /\ ApiIdle
  /\ currentPersona \in UiPersonas
  /\ turns \in SuspendedTurns(localStorage)
  /\ isWaitingForResponse = (turns # <<>>)
  /\ companionName = Prop(Prop(API_personas, "companion"), "name")
  /\ isAuthenticated = (localStorage["adminToken"] # Null)
  /\ logins \in 0..MaxLogins
  /\ authPc = "idle"
  /\ authCall = Undef
  /\ authOutcome = Ok(Undef)
  /\ TabsIdle

NextLog ==
  /\ last.op = "none"
  /\ \/ \E text \in UiTexts : SendMessage(text)
     \/ \E transport \in LogTransports : FetchSettles(1, transport)
     \/ SendMessageResume(1)
     \/ \E persona \in UiPersonas : SwitchPersona(persona)
     \/ ClearCurrentChat
     \/ ClearAllHistory
     \/ \E aiType \in FaultPersonas, message \in MessageInputs :
          AddMessage(aiType, message, NoFault)
     \/ \E persona \in FaultPersonas : ClearChatHistory(persona, NoFault)
     \/ ClearAllChatHistory(NoFault)
     \/ ClearAll(NoFault)
     \/ \E aiType \in SavePersonas, persona \in PersonaConfigInputs :
          SavePersona(aiType, persona, NoFault)
     \/ \E persona \in FaultPersonas : SetCurrentPersona(persona, NoFault)
     \/ \E authenticated \in {Bool(TRUE), Bool(FALSE)} : SetAdminAuth(authenticated, NoFault)
     \/ SetAdminToken(Str("token-2"), toISOString(2), NoFault)
     \/ ClearAdminToken(NoFault)
     \/ \E inputCode \in CodeInputs : UnlockAdmin(inputCode)
     \/ \E result \in LoginResults(clock) : LoginSettles(result)
     \/ LogoutAdmin

SpecLog == InitLog /\ [][NextLog]_vars

\* the steps that may shorten a log
ClearOps ==
  {"clearChatHistory", "clearCurrentChat", "clearAllChatHistory", "clearAllHistory",
   "clearAll"}

\* new is old, or old with one message after its end
SameOrOneMore(old, new) ==
  \/ new = old
  \/ /\ old.t = "arr" /\ new.t = "arr"
     /\ Len(new.v) = Len(old.v) + 1
     /\ SubSeq(new.v, 1, Len(old.v)) = old.v

OtherPersonas ==
  Obj([code |-> Persona(Str("Coder"), Str("Terse"), Num(3), Str("")),
       pirate |-> Persona(Str("Pirate"), Str("Salty"), Num(9), Str("You are a pirate."))])

PromptStores ==
  { [EmptyLocal EXCEPT !["personas"] = p] :
      p \in {Null, CorruptText, JsonText(StoredPersonas), JsonText(OtherPersonas)} }

InitPrompt ==
  /\ localStorage \in PromptStores
  /\ sessionStorage = EmptySession
  /\ clock = 0
  /\ last = NoCall
  /\ freshStorage = EmptyLocal
  /\ ApiIdle
  /\ UiLoaded
  /\ AuthLoaded
  /\ TabsIdle

SpecPrompt == InitPrompt /\ [][NextApi]_vars

\* the systemPrompt of the config stored under the id, if any
StoredPrompt(ls, id) ==
  IF HasStoredConfig(ls, id) /\ ls["personas"].v.v[id].t = "obj"
    THEN Prop(ls["personas"].v.v[id], "systemPrompt")
    ELSE Undef

\* stored prompt, else default prompt of the id, else that of companion
ExpectedPrompt(ls, id) ==
  IF NonEmptyString(StoredPrompt(ls, id)) THEN StoredPrompt(ls, id)
  ELSE IF id \in KnownIds THEN DEFAULT_PROMPTS.v[id]
  ELSE DEFAULT_PROMPTS.v["companion"]

MaxWriters == 2

TabPersonas == {"companion", "code"}

TabMessages ==
  { Obj([type |-> Str("user"), text |-> Str("hi"), timestamp |-> SuppliedTimestamp]),
    Obj([type |-> Str("user"), text |-> Str("yo"), timestamp |-> SuppliedTimestamp]) }

\* a tab enters addMessage and reads the blob (line 69)
TabReads(aiType, message) ==
  /\ Len(writers) < MaxWriters
  /\ writers' = Append(writers,
                  [aiType |-> aiType, message |-> message, pc |-> "read",
                   conversations |-> getConversations(localStorage, NoFault).val,
                   val |-> Undef])
  /\ last' = NoCall
  /\ freshStorage' = EmptyLocal
  /\ UNCHANGED <<localStorage, sessionStorage, clock>>
  /\ UNCHANGED <<apiVars, uiVars, authVars>>

\* the i-th call pushes onto what it read, writes the blob and returns
\* (lines 71-79)
TabWrites(i) ==
  /\ i \in 1..Len(writers)
  /\ writers[i].pc = "read"
  /\ \E r \in {addMessageFrom(localStorage, sessionStorage, writers[i].conversations,
                              writers[i].aiType, writers[i].message, clock, NoFault)} :
       /\ localStorage' = r.ls
       /\ sessionStorage' = r.ss
       /\ writers' = [writers EXCEPT ![i].pc = "done", ![i].val = r.val]
       /\ last' = Call("addMessage", <<Str(writers[i].aiType), writers[i].message>>,
                       NoFault, r)
  /\ freshStorage' = EmptyLocal
  /\ UNCHANGED clock
  /\ UNCHANGED <<apiVars, uiVars, authVars>>

NextTabs ==
  \/ \E aiType \in TabPersonas, message \in TabMessages : TabReads(aiType, message)
  \/ \E i \in 1..MaxWriters : TabWrites(i)

SpecTabs == Init /\ [][NextTabs]_vars

\* the i-th call writes in this step
Writes(i) ==
  /\ i \in 1..Len(writers)
  /\ writers[i].pc = "read"
  /\ writers'[i].pc = "done"

\* C21: every addMessage of a tab returns true and leaves, as the log of its
\* persona, the log it read with its own message at the end: when nothing
\* was written between its read and its write (one writer, calls in
\* sequence) every log keeps all its messages and gains this one, and a
\* message another tab wrote to that blob in between is gone
C21_WriteKeepsOnlyWhatWasRead ==
  [][\A i \in 1..MaxWriters : Writes(i) =>
       LET w == writers[i]
           seen == Prop(w.conversations, w.aiType).v IN
       /\ last'.val = Bool(TRUE)
       /\ Log(localStorage', w.aiType) = Arr(Append(seen, w.message))
       /\ \A p \in KnownIds \ {w.aiType} :
            Log(localStorage', p) = Prop(w.conversations, p)
       /\ w.conversations = getConversations(localStorage, NoFault).val =>
            /\ Log(localStorage', w.aiType)
                 = Arr(Append(Log(localStorage, w.aiType).v, w.message))
            /\ \A p \in KnownIds \ {w.aiType} :
                 Log(localStorage', p) = Log(localStorage, p)]_vars

\* two calls on one persona, both returned true, and the log holds only the
\* message of the one that wrote last
C21_Witness ==
  /\ Len(writers) = 2
  /\ \A i \in 1..2 : writers[i].pc = "done" /\ writers[i].val = Bool(TRUE)
  /\ writers[1].aiType = "companion" /\ writers[2].aiType = "companion"
  /\ writers[1].message # writers[2].message
  /\ Log(localStorage, "companion") = Arr(<<writers[1].message>>)

(***************************************************************************)
(* Auth as a whole: the token login, the protected request, and the       *)
(* passcode methods kept for backward compatibility, on one page.          *)
(***************************************************************************)
\* the page loads: Auth starts from its initial field values (line 20), the
\* calls the old page had suspended are gone, and init runs
AuthInit ==
  /\ AuthStep("init", <<>>, Done(Ok(Undef), localStorage, sessionStorage))
  /\ isAuthenticated' = init(FALSE, sessionStorage)
  /\ logins' = 0
  /\ authPc' = "idle"
  /\ UNCHANGED <<authCall, authOutcome>>

VerifyPasscode(inputPasscode) ==
  /\ \E r \in {verifyPasscode(localStorage, sessionStorage, inputPasscode)} :
       /\ AuthStep("verifyPasscode", <<inputPasscode>>, r)
       /\ isAuthenticated' = r.authenticated
  /\ UNCHANGED <<logins, authPc, authCall, authOutcome>>

ChangePasscode(currentPasscode, newPasscode) ==
  /\ \E r \in {changePasscode(isAuthenticated, localStorage, sessionStorage,
                              currentPasscode, newPasscode)} :
       AuthStep("changePasscode", <<currentPasscode, newPasscode>>, r)
  /\ UNCHANGED authVars

CheckAuth ==
  /\ AuthStep("checkAuth", <<>>,
              Done(Ok(Bool(checkAuth(sessionStorage))), localStorage, sessionStorage))
  /\ isAuthenticated' = checkAuth(sessionStorage)
  /\ UNCHANGED <<logins, authPc, authCall, authOutcome>>

IsUnlocked ==
  /\ AuthStep("isUnlocked", <<>>,
              Done(isUnlocked(sessionStorage), localStorage, sessionStorage))
  /\ UNCHANGED authVars

\* the passcodes typed and the new passcodes asked for
PasscodeInputs == {Null, Str("admin123"), Str("wrong")}

NewPasscodes == {Str("abc"), Str(" hunter22 ")}

NextPasscode ==
  \/ AuthInit
  \/ \E inputPasscode \in PasscodeInputs : VerifyPasscode(inputPasscode)
  \/ \E currentPasscode \in PasscodeInputs \ {Null}, newPasscode \in NewPasscodes :
       ChangePasscode(currentPasscode, newPasscode)
  \/ CheckAuth
  \/ IsUnlocked
  \/ SetAdminCode(Str("admin123"), NoFault)
  \/ \E inputCode \in CodeInputs : UnlockAdmin(inputCode)
  \/ \E result \in LoginResults(clock) : LoginSettles(result)
  \/ LogoutAdmin
  \/ \E options \in RequestOptions : MakeAuthenticatedRequest(options)
  \/ \E error \in TransportErrors : AuthFetchRejects(error)
  \/ \E status \in AuthStatuses : AuthFetchResolves(status)

SpecPasscode == Init /\ [][NextPasscode]_vars

\* the admin code in force: what Storage.getAdminCode returns
AdminCode(ls) == getAdminCode(ls, Config_getAdminCode, NoFault).val

SessionFlag(ss) == Truthy(isAdminAuthenticated(ss, NoFault).val)

\* C22: changePasscode changes the stored admin code only when
\* currentPasscode equals the admin code in force before the call
C22_ChangeVerifiesCurrent ==
  [][/\ last'.op = "changePasscode"
     /\ localStorage'["adminCode"] # localStorage["adminCode"]
     => last'.args[1] = AdminCode(localStorage)]_vars

\* C28: with no 'adminCode' stored and none configured, verifyPasscode
\* returns false for every input and sets neither Auth.isAuthenticated nor
\* the session flag to true
C28_NoCodeNoVerify ==
  [][/\ last'.op = "verifyPasscode"
     /\ localStorage["adminCode"] = Null
     /\ Config_getAdminCode = Null
     => /\ last'.val = Bool(FALSE)
        /\ ~isAuthenticated'
        /\ SessionFlag(sessionStorage') => SessionFlag(sessionStorage)]_vars

\* the step that led here completed an Auth operation
AuthOperationCompleted ==
  \/ last.op \in {"init", "logoutAdmin", "verifyPasscode", "checkAuth",
                  "unlockAdminResume", "makeAuthenticatedRequestResume"}
  \/ last.op = "unlockAdmin" /\ ~Truthy(last.args[1])
  \/ last.op = "makeAuthenticatedRequest" /\ last.threw

\* C27: after every Auth operation completes, Auth.isAuthenticated equals
\* what Storage.isAdminAuthenticated() returns
C27_FlagEqualsSessionFlag ==
  AuthOperationCompleted => (isAuthenticated = SessionFlag(sessionStorage))

\* C26: a login in flight when logoutAdmin ran does not log the admin in
\* when it resolves: the resolution that directly follows a logout (no
\* login was started in between) leaves Auth.isAuthenticated and the
\* session flag false
C26_StaleLoginStaysLoggedOut ==
  [][last.op = "logoutAdmin" /\ last'.op = "unlockAdminResume"
     => ~isAuthenticated' /\ ~SessionFlag(sessionStorage')]_vars

(***************************************************************************)
(* The admin settings form and the companion's display name.  The page     *)
(* has loaded and UI.init has run; the form fields exist.                  *)
(***************************************************************************)
\* parseInt on the values of the tone slider
parseInt(x) == IF x = Str("7") THEN Num(7) ELSE Num(3)

\* lines 415-440: persona is this.currentPersona, name the value of
\* API.personas.companion.name before the call and, in the result, after it
saveSettings(ls, ss, persona, name, form) ==
  LET companionPersona ==
        Persona(Trim(form.name), Trim(form.personality), parseInt(form.tone),
                Trim(form.systemPrompt))
      r == savePersona(ls, ss, "companion", companionPersona, NoFault) IN
  [threw |-> FALSE, val |-> Undef, ls |-> r.ls, ss |-> r.ss,
   name |-> IF persona = "companion" THEN Trim(form.name) ELSE name]

\* lines 485-494: the value loadSettings leaves in API.personas.companion.name
loadSettings(ls, name) ==
  LET companionPersona == getPersona(ls, "companion", NoFault).val IN
  IF Truthy(AndProp(companionPersona, "name")) THEN Prop(companionPersona, "name")
  ELSE name

\* lines 31-48 on a freshly loaded page, whose API.personas holds the names
\* of api.js
uiInit(ls, ss) ==
  LET persona == getCurrentPersona(ls, NoFault).val
      w == setCurrentPersona(ls, ss, persona, NoFault) IN
  [threw |-> FALSE, val |-> Undef, ls |-> w.ls, ss |-> w.ss, persona |-> persona.v,
   name |-> loadSettings(w.ls, Prop(Prop(API_personas, "companion"), "name"))]

\* the page is loaded again
UiInit ==
  /\ \E r \in {uiInit(localStorage, sessionStorage)} :
       /\ UiStep("init", <<>>, r)
       /\ currentPersona' = r.persona
       /\ companionName' = r.name
  /\ isWaitingForResponse' = FALSE
  /\ turns' = <<>>

SaveSettings(form) ==
  /\ \E r \in {saveSettings(localStorage, sessionStorage, currentPersona,
                            companionName, form)} :
       /\ UiStep("saveSettings", <<form.name>>, r)
       /\ companionName' = r.name
  /\ UNCHANGED <<currentPersona, isWaitingForResponse, turns>>

\* what the admin types into the form
SettingsForms ==
  [name : {Str(" Buddy "), Str("Pal"), Str("")}, personality : {Str("Cheerful"), Str("Calm")},
   tone : {Str("7"), Str("3")}, systemPrompt : {Str("You are Buddy.")}]

\* UI.init has run on a fresh profile
InitSettings ==
  /\ localStorage = uiInit(EmptyLocal, EmptySession).ls
  /\ sessionStorage = EmptySession
  /\ clock = 0
  /\ last = NoCall
  /\ freshStorage = EmptyLocal
  /\ ApiIdle
  /\ currentPersona = uiInit(EmptyLocal, EmptySession).persona
  /\ isWaitingForResponse = FALSE
  /\ turns = <<>>
  /\ companionName = uiInit(EmptyLocal, EmptySession).name
  /\ AuthLoaded
  /\ TabsIdle

NextSettings ==
  \/ UiInit
  \/ \E persona \in UiPersonas : SwitchPersona(persona)
  \/ \E form \in SettingsForms : SaveSettings(form)

SpecSettings == InitSettings /\ [][NextSettings]_vars

\* C30: after every saveSettings the name in API.personas.companion.name
\* is the name of the stored companion persona, whichever persona is
\* current
C30_DisplayNameIsStoredName ==
  [][last'.op = "saveSettings" =>
       companionName' = Prop(getPersona(localStorage', "companion", NoFault).val, "name")]_vars

Next ==
  \/ NextStore
  \/ NextFault
  \/ NextImport
  \/ NextPersona
  \/ NextToken
  \/ NextApi
  \/ NextUi
  \/ NextAuth
  \/ NextLog
  \/ NextTabs
  \/ NextPasscode
  \/ NextSettings

Spec == Init /\ [][Next]_vars
====
